---- MODULE Spec2Model ----
(***************************************************************************)
(* A model of the fulfillment dispatcher of google-smart-home-action-go:   *)
(* Service.GoogleFulfillmentHandler (src/handler.go) handling HTTP         *)
(* requests one check at a time, the token validator and the device        *)
(* provider it calls, and the response writer it writes to.                *)
(*                                                                         *)
(* Strings are modelled at the granularity the handler looks at them:      *)
(*   - a content type is the sequence of its segments, the substring       *)
(*     "application/json" occurring only as a whole segment;               *)
(*   - an Authorization header is the sequence strings.Split(h, " ")       *)
(*     gives, so the empty header is <<"">>;                               *)
(*   - a request body is either malformed JSON or the JSON object it       *)
(*     holds, with a payload absent, null or an object.                    *)
(* A Go map is [nil, kept, m]: nil says the map is the nil map, m is its   *)
(* content (a function from keys to values), kept says the map is the one  *)
(* object the provider retains between requests (keptMap).                 *)
(***************************************************************************)
EXTENDS Integers, Sequences, FiniteSets, TLC

VARIABLES
    pc,             \* position of the handler in the request it is handling
    handled,        \* number of requests received so far
    req,            \* the HTTP request: content type, Authorization, body
    userID,         \* handler local: the user ID the validator returned
    fulfillmentReq, \* handler local: the decoded envelope
    pResp,          \* what the provider returned to the handler's call
    w,              \* the http.ResponseWriter of the request
    calls,          \* validator and provider invocations of this request
    keptMap,        \* content of the State map the provider retains
    cc,             \* Command codec on its own: the steps taken so far
    sc,             \* DeviceState codec on its own: the state built and its encodings
    dv,             \* Device codec on its own: the device built and its encodings
    hg              \* HomeGraph calls of the Service made so far

handlerVars == <<pc, handled, req, userID, fulfillmentReq, pResp, w, calls, keptMap>>

codecVars == <<cc, sc, dv, hg>>

vars == <<pc, handled, req, userID, fulfillmentReq, pResp, w, calls, keptMap, cc, sc, dv, hg>>

----------------------------------------------------------------------------
(* Bounds of the model *)

MaxRequests == 2    \* requests handled in one behaviour
MaxBucket == 2      \* longest updated / offline / sync device list
MaxFailed == 1      \* longest device list of one failure reason
MaxCodecSteps == 4  \* operations on one Command
MaxDecodes == 2     \* envelopes decoded into one Command
MaxRecords == 3     \* Record* calls on one DeviceState
MaxTraitCalls == 2  \* add-trait calls on one Device
MaxAssigns == 1     \* field assignments on one Device
MaxReports == 2     \* HomeGraph calls of one Service

(* net/http status codes the handler writes *)

StatusOK == 200
StatusBadRequest == 400
StatusUnauthorized == 401
StatusUnsupportedMediaType == 415
StatusServiceUnavailable == 503

----------------------------------------------------------------------------
(* Helpers *)

SeqsUpTo(S, n) == UNION {[1..k -> S] : k \in 0..n}

Range(s) == {s[i] : i \in 1..Len(s)}

\* strings.Contains on a string given as its segments
Contains(segs, s) == \E i \in 1..Len(segs) : segs[i] = s

\* strings.ToLower on the words an Authorization scheme is drawn from
ToLower(word) ==
    CASE word \in {"Bearer", "BEARER", "bearer"} -> "bearer"
      [] word \in {"Basic", "basic"} -> "basic"
      [] OTHER -> word

EmptyMap == << >>

\* m with every key of o set to o's value (Go: for k, v := range o { m[k] = v })
Overlay(m, o) ==
    [k \in DOMAIN m \cup DOMAIN o |-> IF k \in DOMAIN o THEN o[k] ELSE m[k]]

\* all orders in which the keys of a Go map can be ranged over
Orderings(S) ==
    {s \in [1..Cardinality(S) -> S] : \A i, j \in 1..Cardinality(S) : s[i] = s[j] => i = j}

NilMap == [nil |-> TRUE, kept |-> FALSE, m |-> EmptyMap]
FreshMap(f) == [nil |-> FALSE, kept |-> FALSE, m |-> f]
KeptMap(k) == [nil |-> FALSE, kept |-> TRUE, m |-> k]

----------------------------------------------------------------------------
(* JSON documents and the Go values encoding/json maps them to *)

\* a JSON value; v holds a scalar as its literal text, sub the members of an object
JV(t, v) == [t |-> t, v |-> v, sub |-> << >>]
JAbsent == JV("absent", "")
JNull == JV("null", "")
JBool(b) == JV("bool", b)
JNumber(n) == JV("number", n)
JString(s) == JV("string", s)
JObject(f) == [t |-> "object", v |-> "", sub |-> f]
\* a JSON array: its items in order
JArray(items) == [t |-> "array", v |-> "", sub |-> [k \in {"[]"} |-> items]]

\* a Go value with its dynamic type; sub holds the fields of a struct or the
\* entries of a map
GoV(t, v) == [t |-> t, v |-> v, sub |-> << >>]
GoNil == GoV("nil", "")
GoBool(b) == GoV("bool", b)
GoInt(n) == GoV("int", n)
GoFloat64(x) == GoV("float64", x)
GoString(s) == GoV("string", s)
GoMap(f) == [t |-> "map", v |-> "", sub |-> f]
GoStruct(f) == [t |-> "struct", v |-> "", sub |-> f]
\* a Go slice: its elements in order
GoSlice(items) == [t |-> "slice", v |-> "", sub |-> [k \in {"[]"} |-> items]]
\* the items of a JSON array or the elements of a Go slice
Items(x) == x.sub["[]"]

\* the number literals of the model and those strconv parses as an integer
IntLiterals == {"0", "50"}
NumberLiterals == IntLiterals \cup {"1.5"}
StringLiterals == {"", "hdmi1"}
BoolLiterals == {"false", "true"}

\* a Go type: a scalar, a pointer to a scalar, or a struct of tagged fields
TScalar(t) == [t |-> t, omitempty |-> FALSE, fields |-> << >>]
TOmitEmpty(t) == [t |-> t, omitempty |-> TRUE, fields |-> << >>]
TStruct(f) == [t |-> "struct", omitempty |-> FALSE, fields |-> f]

PointerTypes == {"*string", "*float32"}

RECURSIVE Zero(_)
\* the zero value of a Go type
Zero(ty) ==
    CASE ty.t = "struct" -> GoStruct([k \in DOMAIN ty.fields |-> Zero(ty.fields[k])])
      [] ty.t = "bool" -> GoV("bool", "false")
      [] ty.t = "string" -> GoV("string", "")
      [] ty.t \in PointerTypes -> GoNil
      [] OTHER -> GoV(ty.t, "0")

RECURSIVE NonZero(_)
\* a value of a Go type none of whose fields is zero
NonZero(ty) ==
    CASE ty.t = "struct" -> GoStruct([k \in DOMAIN ty.fields |-> NonZero(ty.fields[k])])
      [] ty.t = "bool" -> GoV("bool", "true")
      [] ty.t \in {"string", "*string"} -> GoV(ty.t, "hdmi1")
      [] ty.t = "int" -> GoV("int", "50")
      [] OTHER -> GoV(ty.t, "1.5")

RECURSIVE ZeroPointed(_)
\* the zero value of a Go type with its pointers set, each to a zero
ZeroPointed(ty) ==
    CASE ty.t = "struct" -> GoStruct([k \in DOMAIN ty.fields |-> ZeroPointed(ty.fields[k])])
      [] ty.t = "*string" -> GoV(ty.t, "")
      [] ty.t = "*float32" -> GoV(ty.t, "0")
      [] OTHER -> Zero(ty)

\* the values of a Go type the model draws from
Samples(ty) == {Zero(ty), NonZero(ty), ZeroPointed(ty)}

RECURSIVE MarshalValue(_)
\* json.Marshal of a value held in an interface{}: by its dynamic type
MarshalValue(gv) ==
    CASE gv.t = "nil" -> JNull
      [] gv.t = "bool" -> JBool(gv.v)
      [] gv.t \in {"string", "*string"} -> JString(gv.v)
      [] gv.t \in {"map", "struct"} -> JObject([k \in DOMAIN gv.sub |-> MarshalValue(gv.sub[k])])
      [] gv.t = "slice" -> JArray([i \in 1..Len(Items(gv)) |-> MarshalValue(Items(gv)[i])])
      [] OTHER -> JNumber(gv.v)

RECURSIVE Marshal(_, _)
\* json.Marshal of a value of a declared type: a struct leaves out the nil
\* fields tagged omitempty
Marshal(ty, gv) ==
    IF ty.t = "struct" /\ gv.t = "struct"
    THEN JObject([k \in {x \in DOMAIN ty.fields : ~(ty.fields[x].omitempty /\ gv.sub[x] = GoNil)} |->
                     Marshal(ty.fields[k], gv.sub[k])])
    ELSE MarshalValue(gv)

\* a scalar of the wrong kind skipped without an error
UnmarshalScalarDefaulting(t, gv, jv) ==
    IF \/ t = "bool" /\ jv.t = "bool"
       \/ t \in {"string", "*string"} /\ jv.t = "string"
       \/ t \notin {"bool", "string", "*string"} /\ jv.t = "number"
    THEN [err |-> FALSE, val |-> GoV(t, jv.v)]
    ELSE [err |-> FALSE, val |-> gv]

\* json.Unmarshal of a scalar into a field of type t
UnmarshalScalar(t, gv, jv) ==
    CASE t = "bool" ->
           IF jv.t = "bool" THEN [err |-> FALSE, val |-> GoV(t, jv.v)] ELSE [err |-> TRUE, val |-> gv]
      [] t \in {"string", "*string"} ->
           IF jv.t = "string" THEN [err |-> FALSE, val |-> GoV(t, jv.v)] ELSE [err |-> TRUE, val |-> gv]
      [] t = "int" ->
           IF jv.t = "number" /\ jv.v \in IntLiterals
           THEN [err |-> FALSE, val |-> GoV(t, jv.v)] ELSE [err |-> TRUE, val |-> gv]
      [] OTHER ->
           IF jv.t = "number" THEN [err |-> FALSE, val |-> GoV(t, jv.v)] ELSE [err |-> TRUE, val |-> gv]

RECURSIVE Unmarshal(_, _, _)
\* json.Unmarshal of jv into the value gv of type ty: null leaves a value as
\* it is and clears a pointer, members without a field are skipped, fields
\* without a member keep their value, a member of the wrong kind is an error
Unmarshal(ty, gv, jv) ==
    CASE jv.t = "null" ->
           [err |-> FALSE, val |-> IF ty.t \in PointerTypes THEN GoNil ELSE gv]
      [] ty.t = "struct" ->
           IF jv.t # "object"
           THEN [err |-> TRUE, val |-> gv]
           ELSE LET known == DOMAIN ty.fields \cap DOMAIN jv.sub
                IN  [err |-> \E k \in known : Unmarshal(ty.fields[k], gv.sub[k], jv.sub[k]).err,
                     val |-> GoStruct([k \in DOMAIN ty.fields |->
                                IF k \in known
                                THEN Unmarshal(ty.fields[k], gv.sub[k], jv.sub[k]).val
                                ELSE gv.sub[k]])]
      [] OTHER -> UnmarshalScalar(ty.t, gv, jv)

RECURSIVE FromJSON(_)
\* json.Unmarshal into an interface{}: numbers become float64, objects
\* map[string]interface{}, arrays []interface{}
FromJSON(jv) ==
    CASE jv.t = "null" -> GoNil
      [] jv.t = "bool" -> GoBool(jv.v)
      [] jv.t = "string" -> GoString(jv.v)
      [] jv.t = "object" -> GoMap([k \in DOMAIN jv.sub |-> FromJSON(jv.sub[k])])
      [] jv.t = "array" -> GoSlice([i \in 1..Len(Items(jv)) |-> FromJSON(Items(jv)[i])])
      [] OTHER -> GoFloat64(jv.v)

----------------------------------------------------------------------------
(* The Command codec *)

\* the payload fields of Command
PayloadFields ==
    {"BrightnessAbsolute", "BrightnessRelative", "ColorAbsolute", "OnOff", "Mute",
     "SetVolume", "AdjustVolume", "SetInput", "NextInput", "PreviousInput",
     "SetFanSpeed", "ThermostatTemperatureSetpoint", "OpenClose", "OpenCloseRelative"}

\* the struct each payload field points to, by the JSON keys of its fields
PayloadType(field) ==
    CASE field = "BrightnessAbsolute" -> TStruct([brightness |-> TScalar("int")])
      [] field = "BrightnessRelative" ->
           TStruct([brightnessRelativePercent |-> TScalar("int"),
                    brightnessRelativeWeight |-> TScalar("int")])
      [] field = "ColorAbsolute" ->
           TStruct([color |-> TStruct([name |-> TScalar("string"),
                                       temperature |-> TScalar("int"),
                                       spectrumRGB |-> TScalar("int"),
                                       spectrumHSV |-> TStruct([hue |-> TScalar("float64"),
                                                                saturation |-> TScalar("float64"),
                                                                value |-> TScalar("float64")])])])
      [] field = "OnOff" -> TStruct([on |-> TScalar("bool")])
      [] field = "Mute" -> TStruct([mute |-> TScalar("bool")])
      [] field = "SetFanSpeed" ->
           TStruct([fanSpeed |-> TOmitEmpty("*string"), fanSpeedPercent |-> TOmitEmpty("*float32")])
      [] field = "ThermostatTemperatureSetpoint" ->
           TStruct([thermostatTemperatureSetpoint |-> TScalar("float32")])
      [] field = "SetVolume" -> TStruct([volumeLevel |-> TScalar("int")])
      [] field = "AdjustVolume" -> TStruct([relativeSteps |-> TScalar("int")])
      [] field = "SetInput" -> TStruct([newInput |-> TScalar("string")])
      [] field = "OpenClose" ->
           TStruct([openPercent |-> TScalar("int"), openDirection |-> TOmitEmpty("*string")])
      [] field = "OpenCloseRelative" ->
           TStruct([openRelativePercent |-> TScalar("int"), openDirection |-> TOmitEmpty("*string")])
      [] OTHER -> TStruct(<< >>)

\* the switch of MarshalJSON on c.Name: the payload field the params are taken
\* from, "Generic" in the default case
MarshalField(name) ==
    CASE name = "action.devices.commands.BrightnessAbsolute" -> "BrightnessAbsolute"
      [] name = "action.devices.commands.BrightnessRelative" -> "BrightnessRelative"
      [] name = "action.devices.commands.ColorAbsolute" -> "ColorAbsolute"
      [] name = "action.devices.commands.OnOff" -> "OnOff"
      [] name = "action.devices.commands.mute" -> "Mute"
      [] name = "action.devices.commands.setVolume" -> "SetVolume"
      [] name = "action.devices.commands.volumeRelative" -> "AdjustVolume"
      [] name = "action.devices.commands.SetInput" -> "SetInput"
      [] name = "action.devices.commands.SetFanSpeed" -> "SetFanSpeed"
      [] name = "action.devices.commands.ThermostatTemperatureSetpoint" -> "ThermostatTemperatureSetpoint"
      [] name = "action.devices.commands.NextInput" -> "NextInput"
      [] name = "action.devices.commands.PreviousInput" -> "PreviousInput"
      [] name = "action.devices.commands.OpenClose" -> "OpenClose"
      [] name = "action.devices.commands.OpenCloseRelative" -> "OpenCloseRelative"
      [] OTHER -> "Generic"

\* the switch of UnmarshalJSON with the relative volume decoded into SetVolume
UnmarshalFieldVolumeConfused(name) ==
    CASE name = "action.devices.commands.volumeRelative" -> "SetVolume"
      [] name = "action.devices.commands.setVolume" -> "AdjustVolume"
      [] OTHER -> MarshalField(name)

\* the switch of UnmarshalJSON on tmp.Command: the payload field that is
\* allocated, "Generic" in the default case
UnmarshalField(name) ==
    CASE name = "action.devices.commands.BrightnessAbsolute" -> "BrightnessAbsolute"
      [] name = "action.devices.commands.BrightnessRelative" -> "BrightnessRelative"
      [] name = "action.devices.commands.ColorAbsolute" -> "ColorAbsolute"
      [] name = "action.devices.commands.OnOff" -> "OnOff"
      [] name = "action.devices.commands.mute" -> "Mute"
      [] name = "action.devices.commands.setVolume" -> "SetVolume"
      [] name = "action.devices.commands.volumeRelative" -> "AdjustVolume"
      [] name = "action.devices.commands.SetInput" -> "SetInput"
      [] name = "action.devices.commands.SetFanSpeed" -> "SetFanSpeed"
      [] name = "action.devices.commands.ThermostatTemperatureSetpoint" -> "ThermostatTemperatureSetpoint"
      [] name = "action.devices.commands.NextInput" -> "NextInput"
      [] name = "action.devices.commands.PreviousInput" -> "PreviousInput"
      [] name = "action.devices.commands.OpenClose" -> "OpenClose"
      [] name = "action.devices.commands.OpenCloseRelative" -> "OpenCloseRelative"
      [] OTHER -> "Generic"

\* Command{}: no name, no challenge, every pointer nil
NewCommand ==
    [Name |-> "", Challenge |-> GoNil, Generic |-> GoNil,
     Payload |-> [f \in PayloadFields |-> GoNil]]

\* &CommandGeneric{Command, Params, Challenge}
CommandGeneric(command, params, challenge) ==
    GoStruct([Command |-> GoString(command), Params |-> params, Challenge |-> challenge])

\* a member of a JSON object, JAbsent when the object has no such key
Member(obj, k) == IF k \in DOMAIN obj.sub THEN obj.sub[k] ELSE JAbsent

\* a JSON object of the members that are present
JEnvelope(members) ==
    JObject([k \in {x \in DOMAIN members : members[x].t # "absent"} |-> members[k]])

\* the challenge member of an encoded command: omitempty leaves out a nil
\* and an empty map
EncodeChallenge(challenge) ==
    IF challenge.t = "map" /\ DOMAIN challenge.sub # {} THEN MarshalValue(challenge) ELSE JAbsent

\* Command.MarshalJSON
CommandMarshalJSON(c) ==
    LET field == MarshalField(c.Name)
    IN  IF field = "Generic"
        THEN IF c.Generic = GoNil
             THEN JNull
             ELSE JEnvelope([command |-> MarshalValue(c.Generic.sub.Command),
                             params |-> MarshalValue(c.Generic.sub.Params),
                             challenge |-> EncodeChallenge(c.Generic.sub.Challenge)])
        ELSE JEnvelope([command |-> JString(c.Name),
                        params |-> IF c.Payload[field] = GoNil
                                   THEN JNull
                                   ELSE Marshal(PayloadType(field), c.Payload[field]),
                        challenge |-> EncodeChallenge(c.Challenge)])

\* json.Unmarshal into a map[string]interface{} field
UnmarshalInterfaceMap(jv) ==
    CASE jv.t \in {"absent", "null"} -> [err |-> FALSE, val |-> GoNil]
      [] jv.t = "object" -> [err |-> FALSE, val |-> FromJSON(jv)]
      [] OTHER -> [err |-> TRUE, val |-> GoNil]

\* json.Unmarshal into a map[string]string field: a member that is no string
\* is an error and leaves its key out, a null member is the empty string
UnmarshalStringMap(jv) ==
    CASE jv.t \in {"absent", "null"} -> [err |-> FALSE, val |-> GoNil]
      [] jv.t = "object" ->
           [err |-> \E k \in DOMAIN jv.sub : jv.sub[k].t \notin {"string", "null"},
            val |-> GoMap([k \in {x \in DOMAIN jv.sub : jv.sub[x].t \in {"string", "null"}} |->
                              GoString(jv.sub[k].v)])]
      [] OTHER -> [err |-> TRUE, val |-> GoNil]

\* json.Unmarshal(data, c.Generic) into a new CommandGeneric
UnmarshalGeneric(data) ==
    LET params == UnmarshalInterfaceMap(Member(data, "params"))
        challenge == UnmarshalStringMap(Member(data, "challenge"))
    IN  [err |-> params.err \/ challenge.err,
         val |-> CommandGeneric(Member(data, "command").v, params.val, challenge.val)]

\* the params handed to json.Unmarshal as they were received
ParamsRawJSONAsReceived(params) == params

\* paramsRawJson: params that are absent are decoded as null
ParamsRawJSON(params) == IF params.t = "absent" THEN JNull ELSE params

\* Command.UnmarshalJSON of the envelope data into the Command c
CommandUnmarshalJSON(c, data) ==
    LET tmp == UnmarshalInterfaceMap(Member(data, "challenge"))
        name == Member(data, "command").v
        field == UnmarshalField(name)
        named == [c EXCEPT !.Name = name,
                           !.Challenge = IF tmp.val # GoNil THEN tmp.val ELSE @]
    IN  IF tmp.err
        THEN [err |-> TRUE, cmd |-> c]
        ELSE IF field = "Generic"
        THEN LET generic == UnmarshalGeneric(data)
             IN  [err |-> generic.err, cmd |-> [named EXCEPT !.Generic = generic.val]]
        ELSE LET details == Unmarshal(PayloadType(field), Zero(PayloadType(field)),
                                      ParamsRawJSON(Member(data, "params")))
             IN  [err |-> details.err, cmd |-> [named EXCEPT !.Payload[field] = details.val]]

----------------------------------------------------------------------------
(* The requests the model draws from *)

DeviceIDs == {"123", "456"}
FailureReasons == {"deviceTurnedOff", "hardError"}

ContentTypes ==
    { << >>, <<"text/plain">>, <<"application/json">>,
      <<"application/json", "; charset=utf-8">> }

AuthHeaders ==
    { <<"">>, <<"Basic", "creds">>, <<"Bearer">>, <<"Bearer", "", "tokenOK">>,
      <<"Bearer", "tokenOK">>, <<"bearer", "tokenOK">> }

Handle(id) == [id |-> id, customData |-> "custom-" \o id]

\* a command of an EXECUTE payload, without challenge
WireCommand(name, params) ==
    JEnvelope([command |-> JString(name), params |-> params, challenge |-> JAbsent])

OnOffCommand == WireCommand("action.devices.commands.OnOff", JObject([on |-> JBool("true")]))
\* on given as a string
BadOnOffCommand == WireCommand("action.devices.commands.OnOff", JObject([on |-> JString("hdmi1")]))
\* params of another command: no member is a field of CommandOnOff
LooseOnOffCommand ==
    WireCommand("action.devices.commands.OnOff", JObject([brightness |-> JNumber("50")]))

AbsentPayload == [present |-> FALSE, null |-> FALSE, devices |-> << >>, commands |-> << >>]
NullPayload == [present |-> TRUE, null |-> TRUE, devices |-> << >>, commands |-> << >>]
QueryObject(devs) == [present |-> TRUE, null |-> FALSE, devices |-> devs, commands |-> << >>]
ExecuteObject(cmds) == [present |-> TRUE, null |-> FALSE, devices |-> << >>, commands |-> cmds]

Group(devs, execution) == [devices |-> devs, execution |-> execution]

QueryPayloads ==
    { AbsentPayload, NullPayload,
      QueryObject(<<Handle("123")>>),
      QueryObject(<<Handle("123"), Handle("456")>>) }

ExecutePayloads ==
    { AbsentPayload, NullPayload,
      ExecuteObject(<<Group(<<Handle("123"), Handle("456")>>, <<OnOffCommand>>)>>),
      ExecuteObject(<<Group(<<Handle("123")>>, <<OnOffCommand>>),
                      Group(<<Handle("456")>>, <<OnOffCommand>>)>>),
      ExecuteObject(<<Group(<<Handle("123")>>, <<BadOnOffCommand>>)>>),
      ExecuteObject(<<Group(<<Handle("123")>>, <<OnOffCommand, BadOnOffCommand>>)>>),
      ExecuteObject(<<Group(<<Handle("456")>>, <<LooseOnOffCommand>>)>>) }

WireInput(intent, payload) == [intent |-> intent, payload |-> payload]

SyncInput == WireInput("action.devices.SYNC", AbsentPayload)

WireInputs ==
    { SyncInput,
      WireInput("action.devices.DISCONNECT", AbsentPayload),
      WireInput("action.devices.GOOGLE", AbsentPayload) }
    \cup {WireInput("action.devices.QUERY", p) : p \in QueryPayloads}
    \cup {WireInput("action.devices.EXECUTE", p) : p \in ExecutePayloads}

MalformedBody == [malformed |-> TRUE, requestId |-> "", inputs |-> << >>]
Envelope(id, inputs) == [malformed |-> FALSE, requestId |-> id, inputs |-> inputs]

Bodies ==
    { MalformedBody, Envelope("req-1", << >>) }
    \cup {Envelope("req-1", <<i>>) : i \in WireInputs}
    \cup {Envelope("req-1", <<i, SyncInput>>) : i \in WireInputs}

Requests == [contentType : ContentTypes, authHeader : AuthHeaders, body : Bodies]

----------------------------------------------------------------------------
(* Decoding the request body *)

\* json.Unmarshal into the Commands list of executePayload: every command is
\* decoded into a new Command
DecodeGroup(g) ==
    [err |-> \E i \in 1..Len(g.execution) : CommandUnmarshalJSON(NewCommand, g.execution[i]).err,
     group |-> [Devices |-> g.devices,
                Execution |-> [i \in 1..Len(g.execution) |->
                                  CommandUnmarshalJSON(NewCommand, g.execution[i]).cmd]]]

NilPayload == [nil |-> TRUE, Devices |-> << >>, Commands |-> << >>]

\* fulfillmentInput.UnmarshalJSON
InputUnmarshalJSON(wi) ==
    CASE wi.intent = "action.devices.QUERY" ->
           IF ~wi.payload.present
           THEN [err |-> TRUE, input |-> [Intent |-> wi.intent, Query |-> NilPayload, Execute |-> NilPayload]]
           ELSE [err |-> FALSE,
                 input |-> [Intent |-> wi.intent,
                            Query |-> [nil |-> FALSE, Devices |-> wi.payload.devices, Commands |-> << >>],
                            Execute |-> NilPayload]]
      [] wi.intent = "action.devices.EXECUTE" ->
           IF ~wi.payload.present
              \/ \E i \in 1..Len(wi.payload.commands) : DecodeGroup(wi.payload.commands[i]).err
           THEN [err |-> TRUE, input |-> [Intent |-> wi.intent, Query |-> NilPayload, Execute |-> NilPayload]]
           ELSE [err |-> FALSE,
                 input |-> [Intent |-> wi.intent,
                            Query |-> NilPayload,
                            Execute |-> [nil |-> FALSE, Devices |-> << >>,
                                         Commands |-> [i \in 1..Len(wi.payload.commands) |->
                                                          DecodeGroup(wi.payload.commands[i]).group]]]]
      [] OTHER ->
           [err |-> FALSE, input |-> [Intent |-> wi.intent, Query |-> NilPayload, Execute |-> NilPayload]]

EmptyFulfillmentRequest == [RequestID |-> "", Inputs |-> << >>]

\* json.NewDecoder(r.Body).Decode(fulfillmentReq)
DecodeBody(body) ==
    IF body.malformed \/ \E i \in 1..Len(body.inputs) : InputUnmarshalJSON(body.inputs[i]).err
    THEN [err |-> TRUE, fr |-> EmptyFulfillmentRequest]
    ELSE [err |-> FALSE,
          fr |-> [RequestID |-> body.requestId,
                  Inputs |-> [i \in 1..Len(body.inputs) |-> InputUnmarshalJSON(body.inputs[i]).input]]]

----------------------------------------------------------------------------
(* The checks of the handler *)

ContentTypeIsJSON(r) == Contains(r.contentType, "application/json")

AuthHeaderPresent(r) == r.authHeader # <<"">>

IsBearer(authTokenParts) ==
    Len(authTokenParts) = 2 /\ ToLower(authTokenParts[1]) = "bearer"

\* the input count check accepting any non-empty list of inputs
SingleInputAtLeastOne(fr) == Len(fr.Inputs) >= 1

SingleInput(fr) == Len(fr.Inputs) = 1

\* the switch on fulfillmentReq.Inputs[0].Intent
RouteByIntentTarget(intent) ==
    CASE intent = "action.devices.SYNC" -> "Sync"
      [] intent = "action.devices.QUERY" -> "Query"
      [] intent = "action.devices.EXECUTE" -> "Execute"
      [] intent = "action.devices.DISCONNECT" -> "Disconnect"
      [] OTHER -> "UnsupportedIntent"

----------------------------------------------------------------------------
(* The response writer (net/http as the handler uses it) *)

NewWriter ==
    [wroteHeader |-> FALSE, status |-> 0, header |-> "", sentContentType |-> "",
     headerWrites |-> 0, body |-> << >>]

\* http.DetectContentType: the bodies the handler writes are all sniffed as text
DetectContentType(b) == "text/plain; charset=utf-8"

\* w.Header().Set("Content-Type", v)
SetContentType(ww, v) == [ww EXCEPT !.header = v]

\* w.WriteHeader(code): the first call fixes the status and the headers sent
WriteHeader(ww, code) ==
    IF ww.wroteHeader
    THEN [ww EXCEPT !.headerWrites = @ + 1]
    ELSE [ww EXCEPT !.wroteHeader = TRUE, !.status = code,
                    !.sentContentType = ww.header, !.headerWrites = @ + 1]

\* w.Write(b): writes status 200 first when no status was written, and
\* sniffs the content type of the first chunk when none was set
Write(ww, b) ==
    LET w1 == IF ww.wroteHeader THEN ww ELSE WriteHeader(ww, StatusOK)
        w2 == IF w1.sentContentType = "" /\ Len(w1.body) = 0
              THEN [w1 EXCEPT !.sentContentType = DetectContentType(b)]
              ELSE w1
    IN  [w2 EXCEPT !.body = Append(@, b)]

\* every short text written as null
TextBodyNull(t) == [kind |-> "text", text |-> "null"]

TextBody(t) == [kind |-> "text", text |-> t]

\* a provider failure answered as a client error
ProviderErrorStatusBadRequest == StatusBadRequest

\* the status a provider failure is answered with
ProviderErrorStatus == StatusServiceUnavailable

----------------------------------------------------------------------------
(* The collaborators: token validator and device provider *)

\* AccessTokenValidator.Validate returns (userID, err)
ValidateOutcomes == [userID : {"", "userOK"}, err : BOOLEAN]

\* a call that is made a second time
InvokeWithRetry(method, arg, err) ==
    <<[method |-> method, arg |-> arg, err |-> err], [method |-> method, arg |-> arg, err |-> err]>>

\* one invocation of a validator or provider method, with the error it returned
Invoke(method, arg, err) == <<[method |-> method, arg |-> arg, err |-> err]>>

ProviderMethods == {"Sync", "Query", "Execute", "Disconnect"}

ProviderCalls(log) == SelectSeq(log, LAMBDA c : c.method \in ProviderMethods)

\* the provider outcomes are explored in full for requests with these headers
\* and by samples for the others: the handler reads no header after the
\* token check
CanonicalHeaders(r) ==
    r.contentType = <<"application/json">> /\ r.authHeader = <<"Bearer", "tokenOK">>

OnMap == [on |-> TRUE]

DeviceStatesOver(maps) == [Online : BOOLEAN, Status : {"", "ERROR"}, State : maps]

QueryStateMaps(k) ==
    {NilMap, FreshMap(EmptyMap), FreshMap(OnMap),
     FreshMap([on |-> TRUE, brightness |-> 80]), KeptMap(k)}

ExecuteStateMaps(k) == {NilMap, FreshMap(EmptyMap), FreshMap(OnMap), KeptMap(k)}

NoSyncResponse == [Devices |-> << >>]

SyncOutcomes(r) ==
    {[err |-> TRUE, resp |-> NoSyncResponse], [err |-> TRUE, resp |-> [Devices |-> <<"123">>]]}
    \cup {[err |-> FALSE, resp |-> [Devices |-> d]] : d \in SeqsUpTo(DeviceIDs, MaxBucket)}

NoQueryResponse == [States |-> EmptyMap]

QueryOutcomes(r, k) ==
    {[err |-> TRUE, resp |-> NoQueryResponse]}
    \cup IF CanonicalHeaders(r)
         THEN {[err |-> FALSE, resp |-> [States |-> f]] :
                  f \in UNION {[S -> DeviceStatesOver(QueryStateMaps(k))] : S \in SUBSET DeviceIDs}}
         ELSE {[err |-> FALSE,
                resp |-> [States |-> [id \in {"123"} |->
                                         [Online |-> TRUE, Status |-> "", State |-> FreshMap(OnMap)]]]]}

NoExecuteResponse ==
    [UpdatedState |-> [Online |-> FALSE, Status |-> "", State |-> NilMap],
     UpdatedDevices |-> << >>, OfflineDevices |-> << >>, FailedDevices |-> EmptyMap]

ExecuteResponses(k) ==
    [UpdatedState : [Online : BOOLEAN, Status : {""}, State : ExecuteStateMaps(k)],
     UpdatedDevices : SeqsUpTo(DeviceIDs, MaxBucket),
     OfflineDevices : SeqsUpTo(DeviceIDs, MaxBucket),
     FailedDevices : UNION {[R -> SeqsUpTo(DeviceIDs, MaxFailed)] : R \in SUBSET FailureReasons}]

ExecuteOutcomes(r, k) ==
    {[err |-> TRUE, resp |-> NoExecuteResponse]}
    \cup IF CanonicalHeaders(r)
         THEN {[err |-> FALSE, resp |-> e] : e \in ExecuteResponses(k)}
         ELSE {[err |-> FALSE,
                resp |-> [UpdatedState |-> [Online |-> TRUE, Status |-> "", State |-> FreshMap(OnMap)],
                          UpdatedDevices |-> <<"123">>, OfflineDevices |-> << >>,
                          FailedDevices |-> [x \in {"deviceTurnedOff"} |-> <<"456">>]]]}

NoResponse == [method |-> "", err |-> FALSE, resp |-> << >>]

----------------------------------------------------------------------------
(* Building provider requests and responses *)

DeviceArgs(handles) ==
    [i \in 1..Len(handles) |-> [ID |-> handles[i].id, CustomData |-> handles[i].customData]]

BuildQueryRequest(uid, query) ==
    [AgentID |-> uid, Devices |-> DeviceArgs(query.Devices)]

BuildExecuteRequest(uid, execute) ==
    [AgentID |-> uid,
     Commands |-> [i \in 1..Len(execute.Commands) |->
                      [TargetDevices |-> DeviceArgs(execute.Commands[i].Devices),
                       Commands |-> execute.Commands[i].Execution]]]

\* online written as true whatever the state says
DeviceStateMarshalJSONOnlineTrue(ds) ==
    Overlay(IF ds.Status # ""
            THEN [online |-> TRUE, status |-> ds.Status]
            ELSE [online |-> TRUE],
            ds.State.m)

\* DeviceState.MarshalJSON: online, status when non-empty, then every key of State
DeviceStateMarshalJSON(ds) ==
    Overlay(IF ds.Status # ""
            THEN [online |-> ds.Online, status |-> ds.Status]
            ELSE [online |-> ds.Online],
            ds.State.m)

\* the provider's states passed on as they are
BuildQueryDevicesUnforced(states) == states

\* the devices of queryResponse: every state of the provider with Status forced
BuildQueryDevices(states) ==
    [id \in DOMAIN states |-> [states[id] EXCEPT !.Status = "SUCCESS"]]

EncodeQueryDevices(devices) ==
    [id \in DOMAIN devices |-> DeviceStateMarshalJSON(devices[id])]

\* the map commandSuccessResp.States is after States["online"] = true
WithOnline(m) == Overlay(m, [online |-> TRUE])

\* the assignment States["online"] = true panics on a nil map
ExecutePanics(resp) ==
    Len(resp.UpdatedDevices) > 0 /\ resp.UpdatedState.State.nil

SuccessEntries(resp) ==
    IF Len(resp.UpdatedDevices) > 0
    THEN <<[IDs |-> resp.UpdatedDevices, Status |-> "SUCCESS", ErrorCode |-> "",
            States |-> WithOnline(resp.UpdatedState.State.m)]>>
    ELSE << >>

\* the offline bucket left out of the command list
OfflineEntriesDropped(resp) == << >>


OfflineEntries(resp) ==
    IF Len(resp.OfflineDevices) > 0
    THEN <<[IDs |-> resp.OfflineDevices, Status |-> "OFFLINE", ErrorCode |-> "",
            States |-> EmptyMap]>>
    ELSE << >>

\* one entry per key of FailedDevices, in the order the map is ranged over
ErrorEntries(resp, order) ==
    [i \in 1..Len(order) |->
        [IDs |-> resp.FailedDevices[order[i]], Status |-> "ERROR", ErrorCode |-> order[i],
         States |-> EmptyMap]]

\* executeResp.Payload.Commands
BuildExecuteCommands(resp, order) ==
    SuccessEntries(resp) \o OfflineEntries(resp) \o ErrorEntries(resp, order)

\* encoding/json on executeRespPayload: every field is omitempty
EncodeExecutePayload(p) ==
    LET keys == {k \in {"ids", "status", "errorCode", "states"} :
                    \/ k = "ids" /\ Len(p.IDs) > 0
                    \/ k = "status" /\ p.Status # ""
                    \/ k = "errorCode" /\ p.ErrorCode # ""
                    \/ k = "states" /\ DOMAIN p.States # {}}
    IN  [k \in keys |-> CASE k = "ids" -> p.IDs
                          [] k = "status" -> p.Status
                          [] k = "errorCode" -> p.ErrorCode
                          [] OTHER -> p.States]

EncodeExecuteCommands(commands) ==
    [i \in 1..Len(commands) |-> EncodeExecutePayload(commands[i])]

\* the request ID written where the user ID belongs
SyncBodyAgentIsRequest(fr, uid, devices) ==
    [kind |-> "sync", requestId |-> fr.RequestID, agentUserId |-> fr.RequestID, devices |-> devices]

SyncBody(fr, uid, devices) ==
    [kind |-> "sync", requestId |-> fr.RequestID, agentUserId |-> uid, devices |-> devices]

QueryBody(fr, devices) ==
    [kind |-> "query", requestId |-> fr.RequestID, devices |-> devices]

ExecuteBody(fr, commands) ==
    [kind |-> "execute", requestId |-> fr.RequestID, commands |-> commands]

\* Header().Set, WriteHeader(200) and Encode of a JSON response
WriteJSON(ww, body) ==
    Write(WriteHeader(SetContentType(ww, "application/json"), StatusOK), body)

\* WriteHeader(code) and Write of a short text
WriteError(ww, code, text) == Write(WriteHeader(ww, code), TextBody(text))

----------------------------------------------------------------------------
(* The DeviceState codec *)

\* NewDeviceState(online)
NewDeviceState(online) == [Online |-> online, Status |-> "", State |-> FreshMap(EmptyMap)]

\* DeviceState{}: the target of a decode
ZeroDeviceState == [Online |-> FALSE, Status |-> "", State |-> NilMap]

\* ds.State[k] = v for every key of entries: the recorders write into the map
\* the DeviceState shares with its copies
Record(ds, entries) == [ds EXCEPT !.State.m = Overlay(@, entries)]

RecordBrightness(ds, brightness) == Record(ds, [brightness |-> GoInt(brightness)])

RecordColorTemperature(ds, temperatureK) ==
    Record(ds, [color |-> GoMap([temperatureK |-> GoInt(temperatureK)])])

RecordColorRGB(ds, spectrumRgb) ==
    Record(ds, [color |-> GoMap([spectrumRgb |-> GoInt(spectrumRgb)])])

RecordColorHSV(ds, hue, saturation, value) ==
    Record(ds, [color |-> GoMap([spectrumHsv |->
                            GoMap([hue |-> GoFloat64(hue),
                                   saturation |-> GoFloat64(saturation),
                                   value |-> GoFloat64(value)])])])

RecordInput(ds, input) == Record(ds, [input |-> GoString(input)])

RecordOnOff(ds, on) == Record(ds, [on |-> GoBool(on)])

RecordVolume(ds, volume, isMuted) ==
    Record(ds, [currentVolume |-> GoInt(volume), isMuted |-> GoBool(isMuted)])

\* the results of one Record* call on ds
Recordings(ds) ==
    {RecordBrightness(ds, n) : n \in IntLiterals}
    \cup {RecordColorTemperature(ds, "50"), RecordColorRGB(ds, "50"),
          RecordColorHSV(ds, "50", "1.5", "0"), RecordInput(ds, "hdmi1")}
    \cup {RecordOnOff(ds, b) : b \in BoolLiterals}
    \cup {RecordVolume(ds, "50", b) : b \in BoolLiterals}

\* the Status values a DeviceState is given
Statuses == {"", "ONLINE", "SUCCESS"}

\* json.Marshal(payload) of MarshalJSON: online is the bool and status the
\* string MarshalJSON or the EXECUTE branch put there, the other values go by
\* their dynamic type
MarshalPayload(payload) ==
    JObject([k \in DOMAIN payload |->
                CASE k = "online" -> JBool(IF payload[k] THEN "true" ELSE "false")
                  [] k = "status" -> JString(payload[k])
                  [] OTHER -> MarshalValue(payload[k])])

\* the bytes json.Marshal(ds) gives
EncodeDeviceState(ds) == MarshalPayload(DeviceStateMarshalJSON(ds))

\* UnmarshalJSON leaving Status as it was
DeviceStateUnmarshalJSONStatusKept(ds, data) ==
    LET payload == FromJSON(data).sub
    IN  [err |-> FALSE,
         panic |-> "online" \in DOMAIN payload /\ payload["online"].t # "bool",
         ds |-> [Online |-> IF "online" \in DOMAIN payload
                            THEN payload["online"].v = "true" ELSE ds.Online,
                 Status |-> ds.Status,
                 State |-> FreshMap([k \in DOMAIN payload \ {"online", "status"} |-> payload[k]])]]

\* DeviceState.UnmarshalJSON: data that is no object is an error of
\* json.Unmarshal; online and status are taken out of the decoded object when
\* present, by type assertions that panic on another type; the rest becomes
\* State
DeviceStateUnmarshalJSON(ds, data) ==
    LET payload == FromJSON(data).sub
    IN  IF data.t # "object"
        THEN [err |-> TRUE, panic |-> FALSE, ds |-> ds]
        ELSE [err |-> FALSE,
              panic |-> \/ "online" \in DOMAIN payload /\ payload["online"].t # "bool"
                        \/ "status" \in DOMAIN payload /\ payload["status"].t # "string",
              ds |-> [Online |-> IF "online" \in DOMAIN payload
                                 THEN payload["online"].v = "true" ELSE ds.Online,
                      Status |-> IF "status" \in DOMAIN payload
                                 THEN payload["status"].v ELSE ds.Status,
                      State |-> FreshMap([k \in DOMAIN payload \ {"online", "status"} |->
                                            payload[k]])]]

\* no DeviceState built yet
NoState ==
    [phase |-> "none", x |-> ZeroDeviceState, records |-> 0, passed |-> FALSE,
     data |-> JAbsent, y |-> ZeroDeviceState, again |-> JAbsent]

----------------------------------------------------------------------------
(* The Device profile and its codec *)

\* the trait names the model draws from, in the order of Go's string
\* comparison
TraitNames ==
    <<"action.devices.traits.Brightness", "action.devices.traits.ColorSetting",
      "action.devices.traits.InputSelector", "action.devices.traits.OnOff",
      "action.devices.traits.Scene", "action.devices.traits.Volume">>

\* a < b on strings
StringLess(a, b) ==
    \E i, j \in 1..Len(TraitNames) : TraitNames[i] = a /\ TraitNames[j] = b /\ i < j

\* the list left as the map was ranged over
SortStringsAsRanged(s) == s

RECURSIVE SortStrings(_)
\* sort.Strings(s)
SortStrings(s) ==
    IF Len(s) = 0
    THEN << >>
    ELSE LET i == CHOOSE i \in 1..Len(s) : \A j \in 1..Len(s) : ~StringLess(s[j], s[i])
         IN  <<s[i]>> \o SortStrings(SubSeq(s, 1, i - 1) \o SubSeq(s, i + 1, Len(s)))

BoolLiteral(b) == IF b THEN "true" ELSE "false"

\* DeviceName{}, DeviceInfo{}
ZeroDeviceName == [DefaultNames |-> << >>, Name |-> "", Nicknames |-> << >>]
ZeroDeviceInfo == [Manufacturer |-> "", Model |-> "", HwVersion |-> "", SwVersion |-> ""]

\* Device{}: every map is nil
ZeroDevice ==
    [ID |-> "", Type |-> "", Traits |-> NilMap, Name |-> ZeroDeviceName,
     WillReportState |-> FALSE, RoomHint |-> "", Attributes |-> NilMap,
     DeviceInfo |-> ZeroDeviceInfo, OtherDeviceIDs |-> << >>, CustomData |-> NilMap]

\* NewDevice(id, typ): the three maps are made
NewDevice(id, typ) ==
    [ZeroDevice EXCEPT !.ID = id, !.Type = typ, !.Traits = FreshMap(EmptyMap),
                       !.Attributes = FreshMap(EmptyMap), !.CustomData = FreshMap(EmptyMap)]

\* a method on d that has not panicked so far
Started(d) == [panic |-> FALSE, d |-> d]

\* the assignment leaving the map with the one entry
AssignReplacing(r, map, key, val) ==
    IF r.panic
    THEN r
    ELSE IF r.d[map].nil
    THEN [panic |-> TRUE, d |-> r.d]
    ELSE [panic |-> FALSE, d |-> [r.d EXCEPT ![map].m = [k \in {key} |-> val]]]

\* d.<map>[key] = val: an assignment to an entry of a nil map panics
Assign(r, map, key, val) ==
    IF r.panic
    THEN r
    ELSE IF r.d[map].nil
    THEN [panic |-> TRUE, d |-> r.d]
    ELSE [panic |-> FALSE, d |-> [r.d EXCEPT ![map].m = Overlay(@, [k \in {key} |-> val])]]

AddBrightnessTrait(d, onlyCommand) ==
    LET r == Assign(Started(d), "Traits", "action.devices.traits.Brightness", GoBool("true"))
    IN  IF onlyCommand
        THEN Assign(r, "Attributes", "commandOnlyBrightness", GoBool("true"))
        ELSE r

\* the colour-wheel models
RGB == "rgb"
HSV == "hsv"

\* the colour model of the first call kept
AddColourTraitFirstModelKept(d, model, onlyCommand) ==
    LET r1 == Assign(Started(d), "Traits", "action.devices.traits.ColorSetting", GoBool("true"))
    IN  IF ~d.Attributes.nil /\ "colorModel" \in DOMAIN d.Attributes.m
        THEN r1
        ELSE Assign(r1, "Attributes", "colorModel", GoString(model))

AddColourTrait(d, model, onlyCommand) ==
    LET r1 == Assign(Started(d), "Traits", "action.devices.traits.ColorSetting", GoBool("true"))
        r2 == IF onlyCommand
              THEN Assign(r1, "Attributes", "commandOnlyColorSetting", GoBool("true"))
              ELSE r1
    IN  Assign(r2, "Attributes", "colorModel", GoString(model))

AddColourTemperatureTrait(d, minTempK, maxTempK, onlyCommand) ==
    LET r1 == Assign(Started(d), "Traits", "action.devices.traits.ColorSetting", GoBool("true"))
        r2 == Assign(r1, "Attributes", "commandOnlyColorSetting", GoBool(BoolLiteral(onlyCommand)))
    IN  Assign(r2, "Attributes", "colorTemperatureRange",
               GoMap([temperatureMinK |-> GoInt(minTempK), temperatureMaxK |-> GoInt(maxTempK)]))

AddInputSelectorTrait(d, availableInputs, ordered) ==
    LET r1 == Assign(Started(d), "Traits", "action.devices.traits.InputSelector", GoBool("true"))
        r2 == Assign(r1, "Attributes", "availableInputs", availableInputs)
    IN  Assign(r2, "Attributes", "orderedInputs", GoBool(BoolLiteral(ordered)))

AddOnOffTrait(d, onlyCommand, onlyQuery) ==
    LET r1 == Assign(Started(d), "Traits", "action.devices.traits.OnOff", GoBool("true"))
        r2 == IF onlyCommand
              THEN Assign(r1, "Attributes", "commandOnlyOnOff", GoBool("true"))
              ELSE r1
    IN  IF onlyQuery
        THEN Assign(r2, "Attributes", "queryOnlyOnOff", GoBool("true"))
        ELSE r2

AddVolumeTrait(d, maxLevel, canMute, onlyCommand) ==
    LET r1 == Assign(Started(d), "Traits", "action.devices.traits.Volume", GoBool("true"))
        r2 == IF onlyCommand
              THEN Assign(r1, "Attributes", "commandOnlyVolume", GoBool("true"))
              ELSE r1
        r3 == Assign(r2, "Attributes", "volumeMaxLevel", GoInt(maxLevel))
    IN  Assign(r3, "Attributes", "volumeCanMuteAndUnmute", GoBool(BoolLiteral(canMute)))

\* DeviceInput{Key, Names: []DeviceInputName{{LanguageCode, Synonyms}}}
DeviceInput(key, lang, synonyms) ==
    GoStruct([key |-> GoString(key),
              names |-> GoSlice(<<GoStruct([lang |-> GoString(lang),
                                            name_synonym |-> GoSlice([i \in 1..Len(synonyms) |->
                                                                        GoString(synonyms[i])])])>>)])

NewSimpleAVReceiver(id, inputs, maxLevel, canMute, onlyCommand) ==
    LET d1 == AddOnOffTrait(NewDevice(id, "action.devices.types.AUDIO_VIDEO_RECEIVER"), FALSE, FALSE).d
        d2 == AddInputSelectorTrait(d1, inputs, canMute).d
    IN  AddVolumeTrait(d2, maxLevel, canMute, onlyCommand).d

NewLight(id) == AddOnOffTrait(NewDevice(id, "action.devices.types.LIGHT"), FALSE, FALSE).d

\* one add-trait call and its arguments
BrightnessCall(onlyCommand) == [op |-> "AddBrightnessTrait", onlyCommand |-> onlyCommand]
ColourCall(model, onlyCommand) ==
    [op |-> "AddColourTrait", model |-> model, onlyCommand |-> onlyCommand]
ColourTemperatureCall(minTempK, maxTempK, onlyCommand) ==
    [op |-> "AddColourTemperatureTrait", minTempK |-> minTempK, maxTempK |-> maxTempK,
     onlyCommand |-> onlyCommand]
InputSelectorCall(availableInputs, ordered) ==
    [op |-> "AddInputSelectorTrait", availableInputs |-> availableInputs, ordered |-> ordered]
OnOffCall(onlyCommand, onlyQuery) ==
    [op |-> "AddOnOffTrait", onlyCommand |-> onlyCommand, onlyQuery |-> onlyQuery]
VolumeCall(maxLevel, canMute, onlyCommand) ==
    [op |-> "AddVolumeTrait", maxLevel |-> maxLevel, canMute |-> canMute,
     onlyCommand |-> onlyCommand]

\* the call applied to d
AddTrait(d, call) ==
    CASE call.op = "AddBrightnessTrait" -> AddBrightnessTrait(d, call.onlyCommand)
      [] call.op = "AddColourTrait" -> AddColourTrait(d, call.model, call.onlyCommand)
      [] call.op = "AddColourTemperatureTrait" ->
           AddColourTemperatureTrait(d, call.minTempK, call.maxTempK, call.onlyCommand)
      [] call.op = "AddInputSelectorTrait" ->
           AddInputSelectorTrait(d, call.availableInputs, call.ordered)
      [] call.op = "AddOnOffTrait" -> AddOnOffTrait(d, call.onlyCommand, call.onlyQuery)
      [] OTHER -> AddVolumeTrait(d, call.maxLevel, call.canMute, call.onlyCommand)

\* omitempty on a string, a slice and a map
OmitEmptyString(s) == IF s = "" THEN JAbsent ELSE JString(s)
OmitEmptyList(items) == IF Len(items) = 0 THEN JAbsent ELSE JArray(items)
OmitEmptyMap(m) ==
    IF DOMAIN m.m = {} THEN JAbsent ELSE JObject([k \in DOMAIN m.m |-> MarshalValue(m.m[k])])

JStrings(s) == [i \in 1..Len(s) |-> JString(s[i])]

\* Device.MarshalJSON: deviceRaw filled from d, the traits in the order the
\* map was ranged over and then sorted, and json.Marshal of it
DeviceMarshalJSON(d, order) ==
    JEnvelope(
        [id |-> OmitEmptyString(d.ID),
         type |-> OmitEmptyString(d.Type),
         traits |-> OmitEmptyList(JStrings(SortStrings(order))),
         name |-> JEnvelope([defaultNames |-> OmitEmptyList(JStrings(d.Name.DefaultNames)),
                             name |-> OmitEmptyString(d.Name.Name),
                             nicknames |-> OmitEmptyList(JStrings(d.Name.Nicknames))]),
         willReportState |-> JBool(BoolLiteral(d.WillReportState)),
         roomHint |-> OmitEmptyString(d.RoomHint),
         attributes |-> OmitEmptyMap(d.Attributes),
         deviceInfo |-> JEnvelope([manufacturer |-> OmitEmptyString(d.DeviceInfo.Manufacturer),
                                   model |-> OmitEmptyString(d.DeviceInfo.Model),
                                   hwVersion |-> OmitEmptyString(d.DeviceInfo.HwVersion),
                                   swVersion |-> OmitEmptyString(d.DeviceInfo.SwVersion)]),
         otherDeviceIds |-> OmitEmptyList(
             [i \in 1..Len(d.OtherDeviceIDs) |->
                 JEnvelope([agentId |-> OmitEmptyString(d.OtherDeviceIDs[i].AgentID),
                            deviceId |-> OmitEmptyString(d.OtherDeviceIDs[i].DeviceID)])]),
         customData |-> OmitEmptyMap(d.CustomData)])

\* json.Unmarshal of a member into a string, a bool, a []string, a
\* map[string]interface{} field of deviceRaw: a missing or null member leaves
\* the zero value, a member of another kind is an error
StringField(jv) ==
    CASE jv.t \in {"absent", "null"} -> [err |-> FALSE, val |-> ""]
      [] jv.t = "string" -> [err |-> FALSE, val |-> jv.v]
      [] OTHER -> [err |-> TRUE, val |-> ""]

BoolField(jv) ==
    CASE jv.t \in {"absent", "null"} -> [err |-> FALSE, val |-> FALSE]
      [] jv.t = "bool" -> [err |-> FALSE, val |-> jv.v = "true"]
      [] OTHER -> [err |-> TRUE, val |-> FALSE]

StringsField(jv) ==
    CASE jv.t \in {"absent", "null"} -> [err |-> FALSE, val |-> << >>]
      [] jv.t = "array" ->
           [err |-> \E i \in 1..Len(Items(jv)) : StringField(Items(jv)[i]).err,
            val |-> [i \in 1..Len(Items(jv)) |-> StringField(Items(jv)[i]).val]]
      [] OTHER -> [err |-> TRUE, val |-> << >>]

MapField(jv) ==
    CASE jv.t \in {"absent", "null"} -> [err |-> FALSE, val |-> NilMap]
      [] jv.t = "object" -> [err |-> FALSE, val |-> FreshMap(FromJSON(jv).sub)]
      [] OTHER -> [err |-> TRUE, val |-> NilMap]

\* the same for a struct field: the members of the object are decoded into
\* the string or []string fields named by them
StructField(jv, strings, lists) ==
    CASE jv.t \in {"absent", "null"} ->
           [err |-> FALSE,
            val |-> [k \in strings \cup lists |-> IF k \in strings THEN "" ELSE << >>]]
      [] jv.t = "object" ->
           [err |-> \/ \E k \in strings : StringField(Member(jv, k)).err
                    \/ \E k \in lists : StringsField(Member(jv, k)).err,
            val |-> [k \in strings \cup lists |->
                        IF k \in strings
                        THEN StringField(Member(jv, k)).val
                        ELSE StringsField(Member(jv, k)).val]]
      [] OTHER ->
           [err |-> TRUE,
            val |-> [k \in strings \cup lists |-> IF k \in strings THEN "" ELSE << >>]]

OtherDeviceIDsField(jv) ==
    CASE jv.t \in {"absent", "null"} -> [err |-> FALSE, val |-> << >>]
      [] jv.t = "array" ->
           [err |-> \E i \in 1..Len(Items(jv)) :
                        StructField(Items(jv)[i], {"agentId", "deviceId"}, {}).err,
            val |-> [i \in 1..Len(Items(jv)) |->
                        StructField(Items(jv)[i], {"agentId", "deviceId"}, {}).val]]
      [] OTHER -> [err |-> TRUE, val |-> << >>]

\* json.Unmarshal(data, &dr) into a deviceRaw{}
UnmarshalDeviceRaw(data) ==
    LET id == StringField(Member(data, "id"))
        type == StringField(Member(data, "type"))
        traits == StringsField(Member(data, "traits"))
        name == StructField(Member(data, "name"), {"name"}, {"defaultNames", "nicknames"})
        willReportState == BoolField(Member(data, "willReportState"))
        roomHint == StringField(Member(data, "roomHint"))
        attributes == MapField(Member(data, "attributes"))
        deviceInfo == StructField(Member(data, "deviceInfo"),
                                  {"manufacturer", "model", "hwVersion", "swVersion"}, {})
        otherDeviceIds == OtherDeviceIDsField(Member(data, "otherDeviceIds"))
        customData == MapField(Member(data, "customData"))
    IN  [err |-> \/ data.t # "object"
                 \/ id.err \/ type.err \/ traits.err \/ name.err \/ willReportState.err
                 \/ roomHint.err \/ attributes.err \/ deviceInfo.err \/ otherDeviceIds.err
                 \/ customData.err,
         dr |-> [ID |-> id.val, Type |-> type.val, Traits |-> traits.val, Name |-> name.val,
                 WillReportState |-> willReportState.val, RoomHint |-> roomHint.val,
                 Attributes |-> attributes.val, DeviceInfo |-> deviceInfo.val,
                 OtherDeviceIDs |-> otherDeviceIds.val, CustomData |-> customData.val]]

\* the room hint left as it was
DeviceUnmarshalJSONRoomHintKept(d, data) ==
    [err |-> UnmarshalDeviceRaw(data).err,
     d |-> [d EXCEPT !.ID = UnmarshalDeviceRaw(data).dr.ID,
                     !.Traits = FreshMap([t \in Range(UnmarshalDeviceRaw(data).dr.Traits) |->
                                            GoBool("true")]),
                     !.Attributes = UnmarshalDeviceRaw(data).dr.Attributes,
                     !.CustomData = FreshMap(UnmarshalDeviceRaw(data).dr.CustomData.m)]]

\* Device.UnmarshalJSON of data into the Device d: Traits is made when nil and
\* added to, OtherDeviceIDs is appended to, Attributes is what deviceRaw
\* holds (nil without the member), CustomData is made when deviceRaw's is nil
DeviceUnmarshalJSON(d, data) ==
    LET r == UnmarshalDeviceRaw(data)
        dr == r.dr
        traits == IF d.Traits.nil THEN FreshMap(EmptyMap) ELSE d.Traits
    IN  IF r.err
        THEN [err |-> TRUE, d |-> d]
        ELSE [err |-> FALSE,
              d |-> [ID |-> dr.ID,
                     Type |-> dr.Type,
                     Traits |-> [traits EXCEPT !.m = Overlay(@, [t \in Range(dr.Traits) |-> GoBool("true")])],
                     Name |-> [DefaultNames |-> dr.Name.defaultNames, Name |-> dr.Name.name,
                               Nicknames |-> dr.Name.nicknames],
                     WillReportState |-> dr.WillReportState,
                     RoomHint |-> dr.RoomHint,
                     Attributes |-> dr.Attributes,
                     DeviceInfo |-> [Manufacturer |-> dr.DeviceInfo.manufacturer,
                                     Model |-> dr.DeviceInfo.model,
                                     HwVersion |-> dr.DeviceInfo.hwVersion,
                                     SwVersion |-> dr.DeviceInfo.swVersion],
                     OtherDeviceIDs |-> d.OtherDeviceIDs \o
                                        [i \in 1..Len(dr.OtherDeviceIDs) |->
                                            [AgentID |-> dr.OtherDeviceIDs[i].agentId,
                                             DeviceID |-> dr.OtherDeviceIDs[i].deviceId]],
                     CustomData |-> IF dr.CustomData.nil THEN FreshMap(EmptyMap)
                                    ELSE dr.CustomData]]

\* no Device built yet
NoDevice ==
    [phase |-> "none", origin |-> "", base |-> ZeroDevice, d |-> ZeroDevice, calls |-> << >>,
     assigned |-> 0,
     data |-> JAbsent, y |-> ZeroDevice, again |-> JAbsent]

----------------------------------------------------------------------------
(* The handler, one check or call per step *)

Terminal == {"done", "panicked"}

Init ==
    /\ pc = "idle"
    /\ handled = 0
    /\ req = [contentType |-> << >>, authHeader |-> <<"">>, body |-> MalformedBody]
    /\ userID = ""
    /\ fulfillmentReq = EmptyFulfillmentRequest
    /\ pResp = NoResponse
    /\ w = NewWriter
    /\ calls = << >>
    /\ keptMap = OnMap
    /\ cc = << >>
    /\ sc = NoState
    /\ dv = NoDevice
    /\ hg = << >>

\* the server hands a request and a fresh ResponseWriter to the handler
ReceiveRequest ==
    /\ UNCHANGED codecVars
    /\ pc \in {"idle"} \cup Terminal
    /\ handled < MaxRequests
    /\ \E r \in Requests : req' = r
    /\ handled' = handled + 1
    /\ pc' = "ValidateContentType"
    /\ userID' = ""
    /\ fulfillmentReq' = EmptyFulfillmentRequest
    /\ pResp' = NoResponse
    /\ w' = NewWriter
    /\ calls' = << >>
    /\ UNCHANGED keptMap

ValidateContentType ==
    /\ UNCHANGED codecVars
    /\ pc = "ValidateContentType"
    /\ IF ~ContentTypeIsJSON(req)
       THEN /\ w' = WriteError(w, StatusUnsupportedMediaType, "Request not JSON")
            /\ pc' = "done"
       ELSE /\ pc' = "ValidateAuthHeader"
            /\ UNCHANGED w
    /\ UNCHANGED <<handled, req, userID, fulfillmentReq, pResp, calls, keptMap>>

ValidateAuthHeader ==
    /\ UNCHANGED codecVars
    /\ pc = "ValidateAuthHeader"
    /\ IF ~AuthHeaderPresent(req)
       THEN /\ w' = WriteError(w, StatusUnauthorized, "Access Token Required")
            /\ pc' = "done"
       ELSE /\ pc' = "ValidateBearerScheme"
            /\ UNCHANGED w
    /\ UNCHANGED <<handled, req, userID, fulfillmentReq, pResp, calls, keptMap>>

ValidateBearerScheme ==
    /\ UNCHANGED codecVars
    /\ pc = "ValidateBearerScheme"
    /\ IF ~IsBearer(req.authHeader)
       THEN /\ w' = WriteError(w, StatusUnauthorized, "Access Token Must Be Bearer")
            /\ pc' = "done"
       ELSE /\ pc' = "ValidateToken"
            /\ UNCHANGED w
    /\ UNCHANGED <<handled, req, userID, fulfillmentReq, pResp, calls, keptMap>>

\* s.atValidator.Validate and the two checks of its result
ValidateToken ==
    /\ UNCHANGED codecVars
    /\ pc = "ValidateToken"
    /\ \E out \in ValidateOutcomes :
          /\ calls' = calls \o Invoke("Validate", req.authHeader[2], out.err)
          /\ userID' = out.userID
          /\ IF out.err \/ out.userID = ""
             THEN /\ w' = WriteError(w, StatusUnauthorized, "Access Token Invalid")
                  /\ pc' = "done"
             ELSE /\ pc' = "DecodeEnvelope"
                  /\ UNCHANGED w
    /\ UNCHANGED <<handled, req, fulfillmentReq, pResp, keptMap>>

DecodeEnvelope ==
    /\ UNCHANGED codecVars
    /\ pc = "DecodeEnvelope"
    /\ LET d == DecodeBody(req.body)
       IN  IF d.err
           THEN /\ w' = WriteError(w, StatusBadRequest, "JSON Deserialization Failed")
                /\ pc' = "done"
                /\ UNCHANGED fulfillmentReq
           ELSE /\ fulfillmentReq' = d.fr
                /\ pc' = "ValidateSingleInput"
                /\ UNCHANGED w
    /\ UNCHANGED <<handled, req, userID, pResp, calls, keptMap>>

ValidateSingleInput ==
    /\ UNCHANGED codecVars
    /\ pc = "ValidateSingleInput"
    /\ IF ~SingleInput(fulfillmentReq)
       THEN /\ w' = WriteError(w, StatusBadRequest, "Unsupported number of inputs")
            /\ pc' = "done"
       ELSE /\ pc' = "RouteByIntent"
            /\ UNCHANGED w
    /\ UNCHANGED <<handled, req, userID, fulfillmentReq, pResp, calls, keptMap>>

RouteByIntent ==
    /\ UNCHANGED codecVars
    /\ pc = "RouteByIntent"
    /\ pc' = RouteByIntentTarget(fulfillmentReq.Inputs[1].Intent)
    /\ UNCHANGED <<handled, req, userID, fulfillmentReq, pResp, w, calls, keptMap>>

Sync ==
    /\ UNCHANGED codecVars
    /\ pc = "Sync"
    /\ \E out \in SyncOutcomes(req) :
          /\ calls' = calls \o Invoke("Sync", userID, out.err)
          /\ pResp' = [method |-> "Sync", err |-> out.err, resp |-> out.resp]
          /\ w' = IF out.err
                  THEN WriteError(w, ProviderErrorStatus, "Fail to sync")
                  ELSE WriteJSON(w, SyncBody(fulfillmentReq, userID, out.resp.Devices))
    /\ pc' = "done"
    /\ UNCHANGED <<handled, req, userID, fulfillmentReq, keptMap>>

Query ==
    /\ UNCHANGED codecVars
    /\ pc = "Query"
    /\ \E out \in QueryOutcomes(req, keptMap) :
          /\ calls' = calls \o Invoke("Query", BuildQueryRequest(userID, fulfillmentReq.Inputs[1].Query), out.err)
          /\ pResp' = [method |-> "Query", err |-> out.err, resp |-> out.resp]
          /\ w' = IF out.err
                  THEN WriteError(w, ProviderErrorStatus, "Fail to query")
                  ELSE WriteJSON(w, QueryBody(fulfillmentReq,
                                    EncodeQueryDevices(BuildQueryDevices(out.resp.States))))
    /\ pc' = "done"
    /\ UNCHANGED <<handled, req, userID, fulfillmentReq, keptMap>>

Execute ==
    /\ UNCHANGED codecVars
    /\ pc = "Execute"
    /\ \E out \in ExecuteOutcomes(req, keptMap) :
       \E order \in Orderings(DOMAIN out.resp.FailedDevices) :
          /\ calls' = calls \o Invoke("Execute", BuildExecuteRequest(userID, fulfillmentReq.Inputs[1].Execute), out.err)
          /\ pResp' = [method |-> "Execute", err |-> out.err, resp |-> out.resp]
          /\ IF out.err
             THEN /\ w' = WriteError(w, ProviderErrorStatus, "Fail to execute")
                  /\ pc' = "done"
                  /\ UNCHANGED keptMap
             ELSE IF ExecutePanics(out.resp)
             THEN \* the panic unwinds the handler: nothing is written
                  /\ pc' = "panicked"
                  /\ UNCHANGED <<w, keptMap>>
             ELSE /\ w' = WriteJSON(w, ExecuteBody(fulfillmentReq,
                                   EncodeExecuteCommands(BuildExecuteCommands(out.resp, order))))
                  /\ keptMap' = IF Len(out.resp.UpdatedDevices) > 0 /\ out.resp.UpdatedState.State.kept
                                THEN WithOnline(keptMap)
                                ELSE keptMap
                  /\ pc' = "done"
    /\ UNCHANGED <<handled, req, userID, fulfillmentReq>>

Disconnect ==
    /\ UNCHANGED codecVars
    /\ pc = "Disconnect"
    /\ \E err \in BOOLEAN :
          /\ calls' = calls \o Invoke("Disconnect", userID, err)
          /\ pResp' = [method |-> "Disconnect", err |-> err, resp |-> << >>]
    /\ w' = Write(w, TextBody("{}"))
    /\ pc' = "done"
    /\ UNCHANGED <<handled, req, userID, fulfillmentReq, keptMap>>

UnsupportedIntent ==
    /\ UNCHANGED codecVars
    /\ pc = "UnsupportedIntent"
    /\ w' = WriteError(w, StatusBadRequest, "Unsupported intent name specified")
    /\ pc' = "done"
    /\ UNCHANGED <<handled, req, userID, fulfillmentReq, pResp, calls, keptMap>>

Next ==
    \/ ReceiveRequest
    \/ ValidateContentType
    \/ ValidateAuthHeader
    \/ ValidateBearerScheme
    \/ ValidateToken
    \/ DecodeEnvelope
    \/ ValidateSingleInput
    \/ RouteByIntent
    \/ Sync
    \/ Query
    \/ Execute
    \/ Disconnect
    \/ UnsupportedIntent

Spec == Init /\ [][Next]_vars

----------------------------------------------------------------------------
(* The Command codec on its own: commands are built, decoded and encoded *)

KnownNames ==
    {"action.devices.commands.BrightnessAbsolute", "action.devices.commands.BrightnessRelative",
     "action.devices.commands.ColorAbsolute", "action.devices.commands.OnOff",
     "action.devices.commands.mute", "action.devices.commands.setVolume",
     "action.devices.commands.volumeRelative", "action.devices.commands.SetInput",
     "action.devices.commands.SetFanSpeed",
     "action.devices.commands.ThermostatTemperatureSetpoint",
     "action.devices.commands.NextInput", "action.devices.commands.PreviousInput",
     "action.devices.commands.OpenClose", "action.devices.commands.OpenCloseRelative"}

\* names the table does not hold: a command of the protocol and a known name
\* in another case
UnknownNames == {"action.devices.commands.Reboot", "action.devices.commands.onoff"}

\* the challenge members of the protocol: none, a pin, an acknowledgement
WireChallenges ==
    {JAbsent, JObject([pin |-> JString("hdmi1")]), JObject([ack |-> JBool("true")])}

\* a member of a kind no field of the struct takes
WrongKind(ty) ==
    JObject([k \in DOMAIN ty.fields |->
                IF ty.fields[k].t = "bool" THEN JString("hdmi1") ELSE JBool("true")])

\* the params members received with a known name
KnownParams(name) ==
    LET ty == PayloadType(MarshalField(name))
    IN  {JAbsent, JNull, JObject(<< >>), JString("hdmi1"),
         JObject([bogus |-> JNumber("50")]), WrongKind(ty)}
        \cup {Marshal(ty, v) : v \in Samples(ty)}

\* the params members received with an unknown name
UnknownParams ==
    {JAbsent, JNull, JObject(<< >>), JString("hdmi1"),
     JObject([level |-> JNumber("1.5"), deep |-> JObject([name |-> JString("hdmi1")])])}

WireEnvelope(name, params, challenge) ==
    JEnvelope([command |-> JString(name), params |-> params, challenge |-> challenge])

\* the envelopes decoded into a new Command
Envelopes ==
    {WireEnvelope(n, p, ch) : <<n, p, ch>> \in
        UNION {{n2} \X KnownParams(n2) \X WireChallenges : n2 \in KnownNames}}
    \cup {WireEnvelope(n, p, ch) : <<n, p, ch>> \in UnknownNames \X UnknownParams \X WireChallenges}

\* the envelopes decoded into a Command that was decoded into before
ReuseEnvelopes ==
    {WireEnvelope(n, Marshal(PayloadType(MarshalField(n)), NonZero(PayloadType(MarshalField(n)))), JAbsent) :
        n \in KnownNames}
    \cup {WireEnvelope(n, JObject(<< >>), JAbsent) : n \in UnknownNames}

\* the Go-side challenge of a Command built by hand
BuiltChallenges == {GoNil, GoMap(<< >>), GoMap([pin |-> GoString("hdmi1")])}

\* the Generic of a Command built by hand and named name
BuiltGenerics(name) ==
    {GoNil,
     CommandGeneric(name, GoNil, GoNil),
     CommandGeneric(name, GoMap([level |-> GoFloat64("1.5")]), GoMap([pin |-> GoString("hdmi1")])),
     CommandGeneric("", GoMap([level |-> GoFloat64("1.5")]), GoNil)}

\* the payloads of a Command built by hand and named name: the field of the
\* name nil or set, alone or next to the OnOff field
BuiltPayloads(name) ==
    LET field == MarshalField(name)
        alone == IF field = "Generic"
                 THEN {NewCommand.Payload}
                 ELSE {NewCommand.Payload}
                      \cup {[NewCommand.Payload EXCEPT ![field] = v] : v \in Samples(PayloadType(field))}
    IN  alone \cup {[p EXCEPT !["OnOff"] = IF @ = GoNil THEN NonZero(PayloadType("OnOff")) ELSE @] :
                       p \in alone}

BuiltCommands ==
    UNION {[Name : {n}, Challenge : BuiltChallenges, Generic : BuiltGenerics(n),
            Payload : BuiltPayloads(n)] : n \in KnownNames \cup UnknownNames}

\* one step of the codec: the operation, the Command after it, the bytes it
\* read or wrote, the error it returned
CodecStep(op, c, data, err) == [op |-> op, c |-> c, data |-> data, err |-> err]

Last(s) == s[Len(s)]

\* the Command the next operation works on
Current(steps) == IF Len(steps) = 0 THEN NewCommand ELSE Last(steps).c

Decodes(steps) == Len(SelectSeq(steps, LAMBDA s : s.op = "decode"))

\* a caller fills in a Command
CommandBuild ==
    /\ Len(cc) = 0
    /\ \E c \in BuiltCommands : cc' = <<CodecStep("build", c, JAbsent, FALSE)>>
    /\ UNCHANGED <<handlerVars, sc, dv, hg>>

\* json.Unmarshal of an envelope into the Command at hand: a new one, or the
\* one the previous envelope was decoded into
CommandDecode ==
    /\ Len(cc) < MaxCodecSteps
    /\ Decodes(cc) < MaxDecodes
    /\ IF Len(cc) = 0 THEN TRUE ELSE Last(cc).op = "decode"
    /\ \E data \in IF Len(cc) = 0 THEN Envelopes ELSE ReuseEnvelopes :
          LET r == CommandUnmarshalJSON(Current(cc), data)
          IN  cc' = Append(cc, CodecStep("decode", r.cmd, data, r.err))
    /\ UNCHANGED <<handlerVars, sc, dv, hg>>

\* json.Marshal of the Command at hand
CommandEncode ==
    /\ Len(cc) > 0
    /\ Len(cc) < MaxCodecSteps
    /\ Last(cc).op \in {"build", "decode", "decodeback"}
    /\ ~Last(cc).err
    /\ cc' = Append(cc, CodecStep("encode", Current(cc), CommandMarshalJSON(Current(cc)), FALSE))
    /\ UNCHANGED <<handlerVars, sc, dv, hg>>

\* json.Unmarshal of the bytes just written into a new Command
CommandDecodeBack ==
    /\ Len(cc) > 0
    /\ Len(cc) < MaxCodecSteps
    /\ Last(cc).op = "encode"
    /\ Last(cc).data.t = "object"
    /\ LET r == CommandUnmarshalJSON(NewCommand, Last(cc).data)
       IN  cc' = Append(cc, CodecStep("decodeback", r.cmd, Last(cc).data, r.err))
    /\ UNCHANGED <<handlerVars, sc, dv, hg>>

CommandNext ==
    \/ CommandBuild
    \/ CommandDecode
    \/ CommandEncode
    \/ CommandDecodeBack

CommandSpec == Init /\ [][CommandNext]_vars

----------------------------------------------------------------------------
(* The DeviceState codec on its own: a state is built, encoded and decoded *)

\* the provider builds a state
StateNew ==
    /\ sc.phase = "none"
    /\ \E online \in BOOLEAN :
          sc' = [sc EXCEPT !.phase = "built", !.x = NewDeviceState(online)]
    /\ UNCHANGED <<handlerVars, cc, dv, hg>>

\* one Record* call
StateRecord ==
    /\ sc.phase = "built"
    /\ sc.records < MaxRecords
    /\ \E ds \in Recordings(sc.x) : sc' = [sc EXCEPT !.x = ds, !.records = @ + 1]
    /\ UNCHANGED <<handlerVars, cc, dv, hg>>

\* the provider sets Status
StateSetStatus ==
    /\ sc.phase = "built"
    /\ \E s \in Statuses \ {sc.x.Status} : sc' = [sc EXCEPT !.x.Status = s]
    /\ UNCHANGED <<handlerVars, cc, dv, hg>>

\* the state is the UpdatedState of an EXECUTE response: the handler sets
\* States["online"] = true in its map
StateExecutePassThrough ==
    /\ sc.phase = "built"
    /\ ~sc.passed
    /\ sc' = [sc EXCEPT !.x.State.m = WithOnline(@), !.passed = TRUE]
    /\ UNCHANGED <<handlerVars, cc, dv, hg>>

\* json.Marshal of the state
StateEncode ==
    /\ sc.phase = "built"
    /\ sc' = [sc EXCEPT !.phase = "encoded", !.data = EncodeDeviceState(sc.x)]
    /\ UNCHANGED <<handlerVars, cc, dv, hg>>

\* json.Unmarshal of the bytes into a new DeviceState
StateDecode ==
    /\ sc.phase = "encoded"
    /\ ~DeviceStateUnmarshalJSON(ZeroDeviceState, sc.data).panic
    /\ sc' = [sc EXCEPT !.phase = "decoded",
                        !.y = DeviceStateUnmarshalJSON(ZeroDeviceState, sc.data).ds]
    /\ UNCHANGED <<handlerVars, cc, dv, hg>>

\* json.Marshal of the decoded state
StateReencode ==
    /\ sc.phase = "decoded"
    /\ sc' = [sc EXCEPT !.phase = "reencoded", !.again = EncodeDeviceState(sc.y)]
    /\ UNCHANGED <<handlerVars, cc, dv, hg>>

\* the device states received on the wire
WireStates ==
    {JObject([online |-> JBool("true"), on |-> JBool("true")]),
     JObject([online |-> JBool("false"), status |-> JString("ERROR")]),
     JObject([on |-> JBool("true"), brightness |-> JNumber("50")]),
     JObject([status |-> JString("SUCCESS")]),
     JObject([online |-> JString("hdmi1"), on |-> JBool("true")]),
     JObject([online |-> JNumber("0")]),
     JObject([online |-> JNull]),
     JObject([online |-> JBool("true"), status |-> JNumber("50")]),
     JString("hdmi1")}

\* json.Unmarshal of a received state into a DeviceState{} or into one that
\* was in use: it returns nil, returns an error or panics
StateDecodeWire ==
    /\ sc.phase = "none"
    /\ \E target \in {ZeroDeviceState, NewDeviceState(TRUE), RecordOnOff(NewDeviceState(FALSE), "true")} :
       \E data \in WireStates :
          LET r == DeviceStateUnmarshalJSON(target, data)
          IN  sc' = [sc EXCEPT !.phase = CASE r.err -> "wirefailed"
                                           [] r.panic -> "wirepanicked"
                                           [] OTHER -> "wiredecoded",
                               !.x = target, !.data = data,
                               !.y = IF r.err \/ r.panic THEN target ELSE r.ds]
    /\ UNCHANGED <<handlerVars, cc, dv, hg>>

StateNext ==
    \/ StateNew
    \/ StateDecodeWire
    \/ StateRecord
    \/ StateSetStatus
    \/ StateExecutePassThrough
    \/ StateEncode
    \/ StateDecode
    \/ StateReencode

StateSpec == Init /\ [][StateNext]_vars

----------------------------------------------------------------------------
(* The Device codec on its own: a device is built or decoded, traits are *)
(* added, it is encoded and decoded *)

\* the inputs of an AV receiver
ReceiverInputs ==
    GoSlice(<<DeviceInput("input-1", "en-US", <<"First Input", "DVD Player">>),
              DeviceInput("input-2", "en-US", <<"Second Input", "Computer">>)>>)

OneInput == GoSlice(<<DeviceInput("input-1", "en-US", <<"First Input">>)>>)

\* the devices the constructors give
Constructed ==
    {NewDevice("test-id", "action.devices.types.LIGHT"),
     NewLight("test-id"),
     NewSimpleAVReceiver("test-id", ReceiverInputs, "100", TRUE, FALSE)}

\* the add-trait calls the model draws from
AddTraitCalls ==
    {BrightnessCall(b) : b \in BOOLEAN}
    \cup {ColourCall(RGB, FALSE), ColourCall(HSV, FALSE), ColourCall(HSV, TRUE)}
    \cup {ColourTemperatureCall("2000", "9000", FALSE), ColourTemperatureCall("2000", "6500", TRUE)}
    \cup {InputSelectorCall(ReceiverInputs, TRUE), InputSelectorCall(OneInput, FALSE)}
    \cup {OnOffCall(FALSE, FALSE), OnOffCall(TRUE, FALSE), OnOffCall(FALSE, TRUE)}
    \cup {VolumeCall("100", TRUE, FALSE), VolumeCall("50", FALSE, TRUE)}

\* the results of one field assignment on d
Assignments(d) ==
    {[d EXCEPT !.Name = [DefaultNames |-> <<"lamp">>, Name |-> "desk lamp",
                         Nicknames |-> <<"reading light", "desk">>]],
     [d EXCEPT !.RoomHint = "office"],
     [d EXCEPT !.WillReportState = TRUE],
     [d EXCEPT !.DeviceInfo = [Manufacturer |-> "acme", Model |-> "l1", HwVersion |-> "",
                               SwVersion |-> "1.5"]],
     [d EXCEPT !.OtherDeviceIDs = Append(@, [AgentID |-> "agent-id-test",
                                             DeviceID |-> "test-id-other"])],
     [d EXCEPT !.CustomData = FreshMap([zone |-> GoString("a"), port |-> GoInt("50")])]}

\* the device descriptors received on the wire
WireDescriptors ==
    {DeviceMarshalJSON(NewLight("test-id"), <<"action.devices.traits.OnOff">>),
     JObject([id |-> JString("test-id"),
              type |-> JString("action.devices.types.SPEAKER"),
              traits |-> JArray(JStrings(<<"action.devices.traits.Volume",
                                           "action.devices.traits.OnOff",
                                           "action.devices.traits.Volume">>)),
              willReportState |-> JBool("true"),
              attributes |-> JObject([volumeMaxLevel |-> JNumber("50")]),
              customData |-> JObject([zone |-> JString("a")])]),
     JObject([id |-> JString("test-id"),
              traits |-> JArray(JStrings(<<"action.devices.traits.Scene">>)),
              attributes |-> JNull,
              customData |-> JNull]),
     JObject([id |-> JString("test-id"),
              traits |-> JString("action.devices.traits.OnOff")]),
     JObject(<< >>)}

\* a constructor
DeviceNew ==
    /\ dv.phase = "none"
    /\ \E d \in Constructed : dv' = [dv EXCEPT !.phase = "built", !.origin = "new", !.base = d, !.d = d]
    /\ UNCHANGED <<handlerVars, cc, sc, hg>>

\* json.Unmarshal of a descriptor into a Device{}
DeviceDecodeWire ==
    /\ dv.phase = "none"
    /\ \E data \in WireDescriptors :
          LET r == DeviceUnmarshalJSON(ZeroDevice, data)
          IN  dv' = [dv EXCEPT !.phase = IF r.err THEN "undecoded" ELSE "built",
                               !.origin = "wire", !.base = r.d, !.d = r.d, !.data = data]
    /\ UNCHANGED <<handlerVars, cc, sc, hg>>

\* one add-trait call: it completes or panics half way
DeviceAddTrait ==
    /\ dv.phase = "built"
    /\ Len(dv.calls) < MaxTraitCalls
    /\ \E call \in AddTraitCalls :
          LET r == AddTrait(dv.d, call)
          IN  dv' = [dv EXCEPT !.phase = IF r.panic THEN "panicked" ELSE "built",
                               !.d = r.d, !.calls = Append(@, call)]
    /\ UNCHANGED <<handlerVars, cc, sc, hg>>

\* one field assignment
DeviceAssign ==
    /\ dv.phase = "built"
    /\ dv.assigned < MaxAssigns
    /\ \E d \in Assignments(dv.d) : dv' = [dv EXCEPT !.d = d, !.assigned = @ + 1]
    /\ UNCHANGED <<handlerVars, cc, sc, hg>>

\* json.Marshal of the device, the Traits map ranged over in any order
DeviceEncode ==
    /\ dv.phase = "built"
    /\ ~dv.d.Traits.nil
    /\ \E order \in Orderings(DOMAIN dv.d.Traits.m) :
          dv' = [dv EXCEPT !.phase = "encoded", !.data = DeviceMarshalJSON(dv.d, order)]
    /\ UNCHANGED <<handlerVars, cc, sc, hg>>

\* json.Unmarshal of the bytes into a new Device
DeviceDecode ==
    /\ dv.phase = "encoded"
    /\ ~DeviceUnmarshalJSON(ZeroDevice, dv.data).err
    /\ dv' = [dv EXCEPT !.phase = "decoded", !.y = DeviceUnmarshalJSON(ZeroDevice, dv.data).d]
    /\ UNCHANGED <<handlerVars, cc, sc, hg>>

\* json.Marshal of the decoded device
DeviceReencode ==
    /\ dv.phase = "decoded"
    /\ \E order \in Orderings(DOMAIN dv.y.Traits.m) :
          dv' = [dv EXCEPT !.phase = "reencoded", !.again = DeviceMarshalJSON(dv.y, order)]
    /\ UNCHANGED <<handlerVars, cc, sc, hg>>

DeviceNext ==
    \/ DeviceNew
    \/ DeviceDecodeWire
    \/ DeviceAddTrait
    \/ DeviceAssign
    \/ DeviceEncode
    \/ DeviceDecode
    \/ DeviceReencode

DeviceSpec == Init /\ [][DeviceNext]_vars

----------------------------------------------------------------------------
(* The HomeGraph calls of the Service: RequestSync and ReportState *)

\* the errors of the package
ErrSyncFailed == "sync failed"
ErrReportStateFailed == "report state failed"

\* err == nil
NoError == "nil"

\* a status of a completed call other than http.StatusOK
StatusNoContent == 204

\* what call.Do() returns: an error, or a response with its HTTP status
DoOutcomes ==
    {[err |-> e, status |-> 0] : e \in {"context deadline exceeded", "googleapi: Error 403"}}
    \cup {[err |-> NoError, status |-> c] : c \in {StatusOK, StatusNoContent, StatusServiceUnavailable}}

\* the users and the device states the provider reports
AgentUserIDs == {"user-1", "user-2"}

ReportedStates ==
    {EmptyMap,
     [id \in {"123"} |-> RecordOnOff(NewDeviceState(TRUE), "true")],
     [id \in DeviceIDs |-> RecordBrightness(NewDeviceState(id = "123"), "50")]}

\* json.Marshal(deviceStates)
MarshalDeviceStates(deviceStates) ==
    JObject([id \in DOMAIN deviceStates |-> EncodeDeviceState(deviceStates[id])])

\* Service.RequestSync: the request sent and the error returned for an
\* outcome of the call
RequestSync(agentUserID, out) ==
    [method |-> "RequestSync", agentUserID |-> agentUserID, states |-> JAbsent, out |-> out,
     ret |-> CASE out.err # NoError -> out.err
               [] out.status # StatusOK -> ErrSyncFailed
               [] OTHER -> NoError]

\* Service.ReportState: the request sent and the error returned for an
\* outcome of the call
ReportState(agentUserID, deviceStates, out) ==
    [method |-> "ReportState", agentUserID |-> agentUserID,
     states |-> MarshalDeviceStates(deviceStates), out |-> out,
     ret |-> CASE out.err # NoError -> out.err
               [] out.status # StatusOK -> ErrSyncFailed
               [] OTHER -> NoError]

ServiceRequestSync ==
    /\ Len(hg) < MaxReports
    /\ \E u \in AgentUserIDs, out \in DoOutcomes : hg' = Append(hg, RequestSync(u, out))
    /\ UNCHANGED <<handlerVars, cc, sc, dv>>

ServiceReportState ==
    /\ Len(hg) < MaxReports
    /\ \E u \in AgentUserIDs, states \in ReportedStates, out \in DoOutcomes :
          hg' = Append(hg, ReportState(u, states, out))
    /\ UNCHANGED <<handlerVars, cc, sc, dv>>

ServiceNext ==
    \/ ServiceRequestSync
    \/ ServiceReportState

ServiceSpec == Init /\ [][ServiceNext]_vars

----------------------------------------------------------------------------
(* What the formulas below read from a state *)

ClientErrors == 400..499

KnownIntents ==
    {"action.devices.SYNC", "action.devices.QUERY", "action.devices.EXECUTE",
     "action.devices.DISCONNECT"}

\* the params of an OnOff command do not have the shape of CommandOnOff: they
\* are no object, or their member on is no boolean
MismatchedParams(wc) ==
    /\ wc.sub.command.v = "action.devices.commands.OnOff"
    /\ "params" \in DOMAIN wc.sub
    /\ wc.sub.params.t # "null"
    /\ \/ wc.sub.params.t # "object"
       \/ /\ "on" \in DOMAIN wc.sub.params.sub
          /\ wc.sub.params.sub.on.t \notin {"bool", "null"}

\* the body is not a decodable envelope: malformed JSON, a QUERY or EXECUTE
\* input without payload, or an EXECUTE command whose params do not fit
BodyUndecodable(b) ==
    \/ b.malformed
    \/ \E i \in 1..Len(b.inputs) :
          \/ b.inputs[i].intent \in {"action.devices.QUERY", "action.devices.EXECUTE"}
             /\ ~b.inputs[i].payload.present
          \/ b.inputs[i].intent = "action.devices.EXECUTE"
             /\ \E g \in 1..Len(b.inputs[i].payload.commands) :
                \E c \in 1..Len(b.inputs[i].payload.commands[g].execution) :
                   MismatchedParams(b.inputs[i].payload.commands[g].execution[c])

\* the status the first failing check of the request gives, 0 when none fails;
\* log is the call log of the request, whose first entry is the token validation
FirstFailingStatus(r, log, uid) ==
    IF ~Contains(r.contentType, "application/json") THEN StatusUnsupportedMediaType
    ELSE IF r.authHeader = <<"">> THEN StatusUnauthorized
    ELSE IF ~(Len(r.authHeader) = 2 /\ r.authHeader[1] \in {"Bearer", "bearer", "BEARER"})
         THEN StatusUnauthorized
    ELSE IF Len(log) = 0 \/ log[1].method # "Validate" \/ log[1].err \/ uid = ""
         THEN StatusUnauthorized
    ELSE IF BodyUndecodable(r.body) THEN StatusBadRequest
    ELSE IF Len(r.body.inputs) # 1 THEN StatusBadRequest
    ELSE IF r.body.inputs[1].intent \notin KnownIntents THEN StatusBadRequest
    ELSE 0

ProviderReturned(method) == pResp.method = method /\ ~pResp.err

----------------------------------------------------------------------------
(* Claims *)

\* C1: no provider method (Sync, Query, Execute, Disconnect) has been invoked
\* in a request that is answered with a 4xx status.
C1_NoProviderCallBefore4xx ==
    w.status \in ClientErrors => Len(ProviderCalls(calls)) = 0

\* C1 witness: an unknown intent, the last of the checks, is answered 400
\* after the validator and no provider method was called.
C1_Witness ==
    /\ pc = "done"
    /\ w.status = StatusBadRequest
    /\ Len(fulfillmentReq.Inputs) = 1
    /\ fulfillmentReq.Inputs[1].Intent = "action.devices.GOOGLE"
    /\ Len(calls) = 1
    /\ Len(ProviderCalls(calls)) = 0

\* C2: the status of a finished request is the one of its first failing check
\* in the order content type (415), Authorization present (401), Bearer form
\* (401), token validation (401), body decode (400), single input (400), known
\* intent (400); a request no check fails for gets none of these statuses.
C2_StatusOfFirstFailingCheck ==
    pc = "done" =>
        LET expected == FirstFailingStatus(req, calls, userID)
        IN  /\ expected # 0 => w.status = expected
            /\ expected = 0 => w.status \notin ClientErrors

\* C2 witness: an invalid token with a malformed body is answered 401.
C2_Witness ==
    /\ pc = "done"
    /\ req.body.malformed
    /\ Len(calls) = 1
    /\ calls[1].err
    /\ w.status = StatusUnauthorized

\* C3: every response with status 200, whatever the intent, carries the header
\* Content-Type: application/json.
C3_SuccessIsJSON ==
    (pc = "done" /\ w.status = StatusOK) => w.sentContentType = "application/json"

\* C4: once the provider's Sync, Query or Execute has returned an error, the
\* request is finished with status 503 and its only provider invocation is
\* that one call.
C4_ProviderErrorIs503Once ==
    (pResp.method \in {"Sync", "Query", "Execute"} /\ pResp.err) =>
        /\ pc = "done"
        /\ w.status = StatusServiceUnavailable
        /\ Len(ProviderCalls(calls)) = 1
        /\ ProviderCalls(calls)[1].method = pResp.method

\* C4 witness: Execute returned an error and the request ended with 503.
C4_Witness ==
    /\ pc = "done"
    /\ pResp.method = "Execute"
    /\ pResp.err
    /\ w.status = StatusServiceUnavailable
    /\ Len(ProviderCalls(calls)) = 1

\* C5: a request the handler has finished with has had exactly one status
\* code written.
C5_ExactlyOneStatusWritten ==
    pc \in Terminal => (w.wroteHeader /\ w.headerWrites = 1)

\* Once a request has reached its end the handler takes no further step for
\* it: the only step is the arrival of the next request.
NoStepAfterTerminal ==
    [][(pc \in Terminal) => (handled' = handled + 1)]_vars

----------------------------------------------------------------------------
(* EXECUTE and QUERY responses *)

\* a field of an encoded JSON object, d when the object does not have it
Field(obj, k, d) == IF k \in DOMAIN obj THEN obj[k] ELSE d

EntriesWithStatus(cmds, st) == {i \in 1..Len(cmds) : Field(cmds[i], "status", "") = st}

\* the command list is what C6 describes for the provider's response r
ExecuteEntriesAsDescribed(cmds, r) ==
    LET success == EntriesWithStatus(cmds, "SUCCESS")
        offline == EntriesWithStatus(cmds, "OFFLINE")
        error == EntriesWithStatus(cmds, "ERROR")
        m == r.UpdatedState.State.m
    IN  /\ Cardinality(success) = IF Len(r.UpdatedDevices) > 0 THEN 1 ELSE 0
        /\ \A i \in success :
              /\ Field(cmds[i], "ids", << >>) = r.UpdatedDevices
              /\ LET st == Field(cmds[i], "states", EmptyMap)
                 IN  /\ DOMAIN st = DOMAIN m \cup {"online"}
                     /\ st["online"] = TRUE
                     /\ \A k \in DOMAIN m \ {"online"} : st[k] = m[k]
        /\ Cardinality(offline) = IF Len(r.OfflineDevices) > 0 THEN 1 ELSE 0
        /\ \A i \in offline : Field(cmds[i], "ids", << >>) = r.OfflineDevices
        /\ Cardinality(error) = Cardinality(DOMAIN r.FailedDevices)
        /\ \A reason \in DOMAIN r.FailedDevices :
              \E i \in error :
                 /\ Field(cmds[i], "errorCode", "") = reason
                 /\ Field(cmds[i], "ids", << >>) = r.FailedDevices[reason]
        /\ Len(cmds) = Cardinality(success) + Cardinality(offline) + Cardinality(error)

\* C6: after an EXECUTE whose provider call returned no error the response
\* holds a command list made of one SUCCESS entry iff the updated bucket is
\* non-empty (its IDs, the provider's state fields, online true), one OFFLINE
\* entry iff the offline bucket is non-empty, and one ERROR entry per failure
\* reason (errorCode the reason, ids its devices).
C6_ExecuteCommandList ==
    (pc \in Terminal /\ ProviderReturned("Execute")) =>
        /\ Len(w.body) = 1
        /\ w.body[1].kind = "execute"
        /\ ExecuteEntriesAsDescribed(w.body[1].commands, pResp.resp)

\* The same for the requests that are answered: every command list the
\* handler writes is the one C6 describes.
WrittenCommandListAsDescribed ==
    (pc = "done" /\ ProviderReturned("Execute")) =>
        /\ Len(w.body) = 1
        /\ w.body[1].kind = "execute"
        /\ ExecuteEntriesAsDescribed(w.body[1].commands, pResp.resp)

\* the device IDs the command groups of the request name
RequestedIDs(r) ==
    IF r.body.malformed \/ Len(r.body.inputs) = 0
    THEN {}
    ELSE LET groups == r.body.inputs[1].payload.commands
         IN  UNION {{groups[g].devices[d].id : d \in 1..Len(groups[g].devices)} :
                       g \in 1..Len(groups)}

EntriesNaming(cmds, id) ==
    {i \in 1..Len(cmds) : id \in Range(Field(cmds[i], "ids", << >>))}

\* the buckets of the provider's response that hold id
BucketsNaming(r, id) ==
    {b \in {"updated", "offline"} \cup DOMAIN r.FailedDevices :
        id \in Range(CASE b = "updated" -> r.UpdatedDevices
                       [] b = "offline" -> r.OfflineDevices
                       [] OTHER -> r.FailedDevices[b])}

ExecuteAnswered200 ==
    pc = "done" /\ ProviderReturned("Execute") /\ w.status = StatusOK /\ Len(w.body) = 1

\* C7 as stated: in every EXECUTE answered 200 each requested device ID is in
\* exactly one entry of the command list.
C7_EveryRequestedIDInOneEntry ==
    ExecuteAnswered200 =>
        \A id \in RequestedIDs(req) :
            Cardinality(EntriesNaming(w.body[1].commands, id)) = 1

\* C7 amended: in every EXECUTE answered 200 each requested device ID is in as
\* many entries of the command list as buckets of the provider's response hold
\* it: exactly one when the provider put it into exactly one bucket.
C7_OneEntryPerProviderBucket ==
    ExecuteAnswered200 =>
        \A id \in RequestedIDs(req) :
            Cardinality(EntriesNaming(w.body[1].commands, id))
                = Cardinality(BucketsNaming(pResp.resp, id))

\* C7 witness: two requested devices, one updated and one offline, each in
\* exactly one entry.
C7_Witness ==
    /\ ExecuteAnswered200
    /\ RequestedIDs(req) = {"123", "456"}
    /\ pResp.resp.UpdatedDevices = <<"123">>
    /\ pResp.resp.OfflineDevices = <<"456">>
    /\ DOMAIN pResp.resp.FailedDevices = {}
    /\ \A id \in RequestedIDs(req) : Cardinality(EntriesNaming(w.body[1].commands, id)) = 1

\* C8: whenever the provider's Execute returned no error the request is
\* answered 200 with a command list, whatever the buckets and the updated
\* state hold.
C8_ExecuteAnswers200 ==
    (pc \in Terminal /\ ProviderReturned("Execute")) =>
        /\ w.status = StatusOK
        /\ Len(w.body) = 1
        /\ w.body[1].kind = "execute"

QueryAnswered ==
    pc = "done" /\ ProviderReturned("Query") /\ Len(w.body) = 1

\* C9: after a QUERY whose provider call returned no error the devices of the
\* response are the device IDs of the provider's state map, each with status
\* SUCCESS and with the trait fields the provider gave.
C9_QueryStatusForced ==
    (pc \in Terminal /\ ProviderReturned("Query")) =>
        /\ Len(w.body) = 1
        /\ w.body[1].kind = "query"
        /\ LET devices == w.body[1].devices
               states == pResp.resp.States
           IN  /\ DOMAIN devices = DOMAIN states
               /\ \A id \in DOMAIN states :
                     /\ "status" \in DOMAIN devices[id]
                     /\ devices[id]["status"] = "SUCCESS"
                     /\ DOMAIN devices[id] \ {"online", "status"}
                          = DOMAIN states[id].State.m \ {"online", "status"}
                     /\ \A k \in DOMAIN states[id].State.m : devices[id][k] = states[id].State.m[k]

\* C9 witness: the provider set status ERROR on a device with trait fields and
\* the response says SUCCESS.
C9_Witness ==
    /\ QueryAnswered
    /\ \E id \in DOMAIN pResp.resp.States :
          /\ pResp.resp.States[id].Status = "ERROR"
          /\ "brightness" \in DOMAIN pResp.resp.States[id].State.m
          /\ w.body[1].devices[id]["status"] = "SUCCESS"
          /\ w.body[1].devices[id]["brightness"] = 80

\* C10 as stated: every device state of a QUERY response has online true.
C10_QueryOnlineForced ==
    QueryAnswered => \A id \in DOMAIN w.body[1].devices : w.body[1].devices[id]["online"] = TRUE

\* C10 amended: the handler does not touch online in a QUERY: every device
\* state of the response has the online value the provider gave, which is the
\* online key of the state's trait map when it has one and the Online field
\* otherwise.
C10_QueryOnlineAsProvided ==
    QueryAnswered =>
        \A id \in DOMAIN pResp.resp.States :
            /\ id \in DOMAIN w.body[1].devices
            /\ w.body[1].devices[id]["online"]
                 = IF "online" \in DOMAIN pResp.resp.States[id].State.m
                   THEN pResp.resp.States[id].State.m["online"]
                   ELSE pResp.resp.States[id].Online

\* C10 witness: a device the provider reports offline is offline in the
\* response.
C10_Witness ==
    /\ QueryAnswered
    /\ \E id \in DOMAIN pResp.resp.States :
          /\ ~pResp.resp.States[id].Online
          /\ "online" \notin DOMAIN pResp.resp.States[id].State.m
          /\ w.body[1].devices[id]["online"] = FALSE

\* C11: the provider's Sync is called with the user ID the token validator
\* returned, and a SYNC request the provider answered without error gets the
\* request's requestId, that user ID as agentUserId and the provider's devices
\* in the provider's order.
C11_SyncCarriesUserAndDevices ==
    /\ \A i \in 1..Len(calls) :
          calls[i].method = "Sync" =>
              /\ i = 2
              /\ calls[1].method = "Validate"
              /\ ~calls[1].err
              /\ calls[i].arg = userID
              /\ userID # ""
    /\ ProviderReturned("Sync") =>
          /\ pc = "done"
          /\ w.status = StatusOK
          /\ Len(w.body) = 1
          /\ w.body[1].kind = "sync"
          /\ w.body[1].requestId = req.body.requestId
          /\ w.body[1].agentUserId = userID
          /\ w.body[1].devices = pResp.resp.Devices

\* C11 witness: a SYNC answered with two devices in the order 456, 123.
C11_Witness ==
    /\ pc = "done"
    /\ ProviderReturned("Sync")
    /\ pResp.resp.Devices = <<"456", "123">>
    /\ w.body[1].devices = <<"456", "123">>
    /\ w.body[1].agentUserId = "userOK"
    /\ w.body[1].requestId = "req-1"

\* a request that passes every check and carries the one intent given
Routed(intent) ==
    /\ FirstFailingStatus(req, calls, userID) = 0
    /\ req.body.inputs[1].intent = intent

\* C12: a DISCONNECT request that passes validation ends with exactly one
\* provider call, Disconnect with the authenticated user ID, and is answered
\* with status 200 and the body {} whether Disconnect returned an error or not.
C12_DisconnectAnswersEmptyObject ==
    /\ (pc = "done" /\ Routed("action.devices.DISCONNECT")) => pResp.method = "Disconnect"
    /\ pResp.method = "Disconnect" =>
          /\ pc = "done"
          /\ Len(ProviderCalls(calls)) = 1
          /\ ProviderCalls(calls)[1].method = "Disconnect"
          /\ ProviderCalls(calls)[1].arg = userID
          /\ ProviderCalls(calls)[1].err = pResp.err
          /\ userID # ""
          /\ w.status = StatusOK
          /\ w.body = <<[kind |-> "text", text |-> "{}"]>>

\* C12 witness: Disconnect returned an error and the answer is 200 with {}.
C12_Witness ==
    /\ pc = "done"
    /\ pResp.method = "Disconnect"
    /\ pResp.err
    /\ w.status = StatusOK
    /\ w.body = <<[kind |-> "text", text |-> "{}"]>>

----------------------------------------------------------------------------
(* What the formulas on the Command codec read from a state *)

\* the payload fields of a Command that are set
Populated(c) == {f \in PayloadFields : c.Payload[f] # GoNil}

\* the last step is a decode, of a received envelope or of encoded bytes
JustDecoded == Len(cc) > 0 /\ Last(cc).op \in {"decode", "decodeback"}

\* the operations taken so far
Trail == [i \in 1..Len(cc) |-> cc[i].op]

\* the Command the last decode wrote into, as it was before
Target == IF Len(cc) = 1 \/ Last(cc).op = "decodeback" THEN NewCommand ELSE cc[Len(cc) - 1].c

\* C13: after Command.UnmarshalJSON returns, whatever the target held before,
\* at most one payload field is set, it is the one of Name, and Generic is set
\* only when Name is not a known name.
C13_DecodeLeavesOneField ==
    JustDecoded =>
        /\ Cardinality(Populated(Last(cc).c)) <= 1
        /\ Populated(Last(cc).c) \subseteq {MarshalField(Last(cc).c.Name)}
        /\ Last(cc).c.Generic # GoNil => Last(cc).c.Name \notin KnownNames

\* The same for a decode into a new Command.
DecodeIntoNewLeavesOneField ==
    (JustDecoded /\ Target = NewCommand) =>
        /\ Cardinality(Populated(Last(cc).c)) <= 1
        /\ Populated(Last(cc).c) \subseteq {MarshalField(Last(cc).c.Name)}
        /\ Last(cc).c.Generic # GoNil => Last(cc).c.Name \notin KnownNames

\* C14: for every Command, MarshalJSON writes a command member equal to Name,
\* and for a known Name takes params from the payload field of that name.
C14_EncodeReproducesName ==
    (Len(cc) > 0 /\ Last(cc).op = "encode") =>
        LET c == Last(cc).c
            data == Last(cc).data
            field == UnmarshalField(c.Name)
        IN  /\ data.t = "object"
            /\ Member(data, "command") = JString(c.Name)
            /\ c.Name \in KnownNames =>
                  Member(data, "params") = IF c.Payload[field] = GoNil
                                           THEN JNull
                                           ELSE Marshal(PayloadType(field), c.Payload[field])

\* The same for the Commands with a known Name.
EncodeOfKnownReproducesName ==
    (Len(cc) > 0 /\ Last(cc).op = "encode" /\ Last(cc).c.Name \in KnownNames) =>
        LET c == Last(cc).c
            data == Last(cc).data
            field == UnmarshalField(c.Name)
        IN  /\ data.t = "object"
            /\ Member(data, "command") = JString(c.Name)
            /\ Member(data, "params") = IF c.Payload[field] = GoNil
                                         THEN JNull
                                         ELSE Marshal(PayloadType(field), c.Payload[field])

\* a Command was built with a known Name and the payload field of that name set
BuiltKnown ==
    /\ Len(cc) > 0
    /\ cc[1].op = "build"
    /\ cc[1].c.Name \in KnownNames
    /\ cc[1].c.Payload[MarshalField(cc[1].c.Name)] # GoNil

DecodedUnknown ==
    /\ Len(cc) > 0
    /\ cc[1].op = "decode"
    /\ Member(cc[1].data, "command").v \notin KnownNames
    /\ Member(cc[1].data, "params").t \in {"absent", "object"}

\* C16: decoding an envelope with a name outside the table succeeds and sets
\* only Generic, with the wire name and the wire params unchanged (no mapping
\* when params are absent); encoding and decoding that Command again gives an
\* equal Command.
C16_GenericFallback ==
    (DecodedUnknown /\ Decodes(cc) = 1) =>
        /\ ~cc[1].err
        /\ Populated(cc[1].c) = {}
        /\ cc[1].c.Name = Member(cc[1].data, "command").v
        /\ cc[1].c.Generic # GoNil
        /\ cc[1].c.Generic.sub.Command = GoString(Member(cc[1].data, "command").v)
        /\ cc[1].c.Generic.sub.Params =
              IF Member(cc[1].data, "params").t = "absent"
              THEN GoNil
              ELSE FromJSON(Member(cc[1].data, "params"))
        /\ Len(cc) >= 3 => (~cc[3].err /\ cc[3].c = cc[1].c)

\* The same for the envelopes whose challenge has only string members.
GenericFallbackWithStringChallenge ==
    (/\ DecodedUnknown
     /\ Decodes(cc) = 1
     /\ Member(cc[1].data, "challenge").t = "object"
            => \A k \in DOMAIN Member(cc[1].data, "challenge").sub :
                  Member(cc[1].data, "challenge").sub[k].t = "string") =>
        /\ ~cc[1].err
        /\ Populated(cc[1].c) = {}
        /\ cc[1].c.Generic # GoNil
        /\ cc[1].c.Generic.sub.Command = GoString(Member(cc[1].data, "command").v)
        /\ cc[1].c.Generic.sub.Params =
              IF Member(cc[1].data, "params").t = "absent"
              THEN GoNil
              ELSE FromJSON(Member(cc[1].data, "params"))
        /\ Len(cc) >= 3 => (~cc[3].err /\ cc[3].c = cc[1].c)

\* the envelope with its params member set to null
WithNullParams(data) == JObject(Overlay(data.sub, [params |-> JNull]))

\* the last step decoded an envelope with a known name and no params member
DecodedWithoutParams ==
    /\ Len(cc) > 0
    /\ Last(cc).op = "decode"
    /\ Member(Last(cc).data, "command").v \in KnownNames
    /\ "params" \notin DOMAIN Last(cc).data.sub

----------------------------------------------------------------------------
(* Command decoding inside the handler *)

\* the commands of the EXECUTE inputs of a body
ExecuteCommandsOf(b) ==
    IF b.malformed
    THEN {}
    ELSE UNION {UNION {Range(b.inputs[i].payload.commands[g].execution) :
                          g \in 1..Len(b.inputs[i].payload.commands)} :
                   i \in {j \in 1..Len(b.inputs) : b.inputs[j].intent = "action.devices.EXECUTE"}}

\* the token validation of the request has passed
TokenAccepted ==
    Len(calls) > 0 /\ calls[1].method = "Validate" /\ ~calls[1].err /\ userID # ""

LooseParamsReachExecute ==
    /\ pc = "done"
    /\ LooseOnOffCommand \in ExecuteCommandsOf(req.body)
    /\ w.status = StatusOK
    /\ Len(ProviderCalls(calls)) = 1
    /\ ProviderCalls(calls)[1].method = "Execute"
    /\ ProviderCalls(calls)[1].arg.Commands[1].Commands[1].Payload["OnOff"]
          = Zero(PayloadType("OnOff"))

----------------------------------------------------------------------------
(* What the formulas on the DeviceState codec read from a state *)

RECURSIVE AsDecoded(_)
\* a recorded value as a decode gives it back: an integer as the float64 of
\* the same number, a struct as a map, a slice as a slice of such values, the
\* other values as they are
AsDecoded(gv) ==
    CASE gv.t = "int" -> GoFloat64(gv.v)
      [] gv.t \in {"map", "struct"} -> GoMap([k \in DOMAIN gv.sub |-> AsDecoded(gv.sub[k])])
      [] gv.t = "slice" -> GoSlice([i \in 1..Len(Items(gv)) |-> AsDecoded(Items(gv)[i])])
      [] OTHER -> gv

\* a state built by NewDeviceState, Record* calls and a Status has been
\* encoded and decoded
RecordedStateDecoded == sc.phase \in {"decoded", "reencoded"} /\ ~sc.passed

\* C19 as stated: the decoded state has the Online, the Status and the
\* trait-state fields of the state that was encoded, and encodes to the same
\* bytes.
C19_StateRoundTrip ==
    RecordedStateDecoded =>
        /\ sc.y.Online = sc.x.Online
        /\ sc.y.Status = sc.x.Status
        /\ sc.y.State.m = sc.x.State.m
        /\ sc.phase = "reencoded" => sc.again = sc.data

\* C19 amended: the decoded state has the Online and the Status of the state
\* that was encoded and a trait-state mapping with the same keys, whose values
\* are those recorded except that every recorded integer comes back as the
\* float64 of the same number; it encodes to the same bytes.
C19_StateRoundTripAsJSON ==
    RecordedStateDecoded =>
        /\ sc.y.Online = sc.x.Online
        /\ sc.y.Status = sc.x.Status
        /\ ~sc.y.State.nil
        /\ DOMAIN sc.y.State.m = DOMAIN sc.x.State.m
        /\ \A k \in DOMAIN sc.x.State.m : sc.y.State.m[k] = AsDecoded(sc.x.State.m[k])
        /\ sc.phase = "reencoded" => sc.again = sc.data

\* C19 witness: the state of the repository's test (brightness, HSV colour,
\* on, a Status) has been encoded, decoded and encoded again to the same
\* bytes, its brightness now a float64.
C19_Witness ==
    /\ sc.phase = "reencoded"
    /\ ~sc.passed
    /\ sc.x.Online
    /\ sc.x.Status = "ONLINE"
    /\ DOMAIN sc.x.State.m = {"brightness", "color", "on"}
    /\ sc.x.State.m["brightness"] = GoInt("50")
    /\ "spectrumHsv" \in DOMAIN sc.x.State.m["color"].sub
    /\ sc.y.State.m["brightness"] = GoFloat64("50")
    /\ sc.y.State.m["color"] = sc.x.State.m["color"]
    /\ sc.again = sc.data

\* C20: the encoding of a DeviceState has online with the value of the Online
\* field, and status exactly when Status is not empty, with the value of
\* Status, whatever the trait-state mapping holds.
C20_EncodeEmitsOnlineField ==
    sc.phase \in {"encoded", "decoded", "reencoded"} =>
        /\ Member(sc.data, "online") = JBool(IF sc.x.Online THEN "true" ELSE "false")
        /\ "status" \in DOMAIN sc.data.sub <=> sc.x.Status # ""
        /\ sc.x.Status # "" => Member(sc.data, "status") = JString(sc.x.Status)

\* The same for the states no EXECUTE response has passed through.
EncodeOfRecordedEmitsOnlineField ==
    (sc.phase \in {"encoded", "decoded", "reencoded"} /\ ~sc.passed) =>
        /\ Member(sc.data, "online") = JBool(IF sc.x.Online THEN "true" ELSE "false")
        /\ "status" \in DOMAIN sc.data.sub <=> sc.x.Status # ""
        /\ sc.x.Status # "" => Member(sc.data, "status") = JString(sc.x.Status)

----------------------------------------------------------------------------
(* What the handler does to the provider's data *)

\* C28: handling a request never writes to data the provider returned or
\* retains: the State map the provider keeps between requests is the same
\* after every step of the handler.
C28_ProviderDataUntouched == [][keptMap' = keptMap]_vars

\* The same for QUERY: a QUERY whose provider returned its retained map
\* leaves it as it was.
QueryLeavesProviderData == [][pc = "Query" => keptMap' = keptMap]_vars

\* the handler of an EXECUTE has written into the map the provider retains
ExecuteWroteProviderData ==
    /\ pc = "done"
    /\ ProviderReturned("Execute")
    /\ pResp.resp.UpdatedState.State.kept
    /\ "online" \in DOMAIN keptMap

\* C29: every entry of the command list of an EXECUTE response names at least
\* one device ID.
C29_EveryEntryNamesADevice ==
    ExecuteAnswered200 =>
        \A i \in 1..Len(w.body[1].commands) :
            Len(Field(w.body[1].commands[i], "ids", << >>)) > 0

\* The same for the SUCCESS and OFFLINE entries, which the handler guards by
\* the length of their bucket.
BucketEntriesNameADevice ==
    ExecuteAnswered200 =>
        \A i \in EntriesWithStatus(w.body[1].commands, "SUCCESS")
                 \cup EntriesWithStatus(w.body[1].commands, "OFFLINE") :
            Len(Field(w.body[1].commands[i], "ids", << >>)) > 0

----------------------------------------------------------------------------
(* What the formulas on the Device codec read from a state *)

RECURSIVE Replay(_, _)
\* the device after the add-trait calls of a sequence, applied in order
Replay(d, s) == IF Len(s) = 0 THEN d ELSE Replay(AddTrait(d, Head(s)).d, Tail(s))

\* the traits list of an encoded device
EncodedTraits(data) ==
    IF Member(data, "traits").t = "array"
    THEN [i \in 1..Len(Items(Member(data, "traits"))) |-> Items(Member(data, "traits"))[i].v]
    ELSE << >>

\* the attribute keys an add-trait operation writes
ContributedKeys(op) ==
    CASE op = "AddBrightnessTrait" -> {"commandOnlyBrightness"}
      [] op = "AddColourTrait" -> {"commandOnlyColorSetting", "colorModel"}
      [] op = "AddColourTemperatureTrait" -> {"commandOnlyColorSetting", "colorTemperatureRange"}
      [] op = "AddInputSelectorTrait" -> {"availableInputs", "orderedInputs"}
      [] op = "AddOnOffTrait" -> {"commandOnlyOnOff", "queryOnlyOnOff"}
      [] OTHER -> {"commandOnlyVolume", "volumeMaxLevel", "volumeCanMuteAndUnmute"}

\* the keys among them the operation writes whatever its arguments are
AlwaysWrittenKeys(op) ==
    CASE op = "AddColourTrait" -> {"colorModel"}
      [] op = "AddColourTemperatureTrait" -> {"commandOnlyColorSetting", "colorTemperatureRange"}
      [] op = "AddInputSelectorTrait" -> {"availableInputs", "orderedInputs"}
      [] op = "AddVolumeTrait" -> {"volumeMaxLevel", "volumeCanMuteAndUnmute"}
      [] OTHER -> {}

\* the entries of the map m under the keys of K
Restrict(m, K) == [k \in DOMAIN m \cap K |-> m[k]]

\* a device built by a constructor and add-trait calls
BuiltByCalls == dv.origin = "new" /\ dv.phase \in {"built", "encoded", "decoded", "reencoded"}

\* C21: the encoded traits list of a Device is sorted and without duplicates,
\* and every sequence of add-trait calls that makes the same calls, in
\* whatever order and with the map ranged over in whatever order, encodes to
\* the same traits list.
C21_TraitsIndependentOfOrder ==
    (dv.origin = "new" /\ dv.phase = "encoded") =>
        LET traits == EncodedTraits(dv.data)
        IN  /\ \A i, j \in 1..Len(traits) : i < j => StringLess(traits[i], traits[j])
            /\ Range(traits) = DOMAIN dv.d.Traits.m
            /\ \A alt \in SeqsUpTo(AddTraitCalls, MaxTraitCalls) :
                  Range(alt) = Range(dv.calls) =>
                      \A order \in Orderings(DOMAIN Replay(dv.base, alt).Traits.m) :
                          EncodedTraits(DeviceMarshalJSON(Replay(dv.base, alt), order)) = traits

\* C21 witness: a light given the Volume and then the Brightness trait is
\* encoded with the traits Brightness, OnOff, Volume.
C21_Witness ==
    /\ dv.origin = "new"
    /\ dv.phase = "encoded"
    /\ dv.base = NewLight("test-id")
    /\ dv.calls = <<VolumeCall("100", TRUE, FALSE), BrightnessCall(FALSE)>>
    /\ EncodedTraits(dv.data) = <<"action.devices.traits.Brightness",
                                  "action.devices.traits.OnOff",
                                  "action.devices.traits.Volume">>

\* a decoded value being the value that was encoded
RoundTripped == dv.origin = "new" /\ dv.phase \in {"decoded", "reencoded"}

\* C22 as stated: the Device decoded from the encoding of a built Device is
\* equal to it, and encodes to the same bytes.
C22_DeviceRoundTrip ==
    RoundTripped =>
        /\ dv.y = dv.d
        /\ dv.phase = "reencoded" => dv.again = dv.data

\* a map[string]interface{} as a decode of its encoding gives it back
MapAsDecoded(m) == [k \in DOMAIN m |-> AsDecoded(m[k])]

\* C22 amended: the decoded Device has the ID, Type, traits, name, room hint,
\* device info and other device IDs of the encoded one; its attributes and
\* custom data have the same keys and the values of the encoded ones with
\* every integer as a float64 and every typed list or struct as a list or map
\* of such values; attributes without an entry come back as the nil map; it
\* encodes to the same bytes.
C22_DeviceRoundTripAsJSON ==
    RoundTripped =>
        /\ [dv.y EXCEPT !.Attributes = NilMap, !.CustomData = NilMap]
               = [dv.d EXCEPT !.Attributes = NilMap, !.CustomData = NilMap]
        /\ dv.y.Attributes.nil <=> DOMAIN dv.d.Attributes.m = {}
        /\ dv.y.Attributes.m = MapAsDecoded(dv.d.Attributes.m)
        /\ ~dv.y.CustomData.nil
        /\ dv.y.CustomData.m = MapAsDecoded(dv.d.CustomData.m)
        /\ dv.phase = "reencoded" => dv.again = dv.data

\* C22 witness: the AV receiver of the repository's test, given another
\* device ID, has been encoded, decoded and encoded again to the same bytes,
\* its volumeMaxLevel now a float64.
C22_Witness ==
    /\ dv.origin = "new"
    /\ dv.phase = "reencoded"
    /\ dv.base = NewSimpleAVReceiver("test-id", ReceiverInputs, "100", TRUE, FALSE)
    /\ dv.d.OtherDeviceIDs = <<[AgentID |-> "agent-id-test", DeviceID |-> "test-id-other"]>>
    /\ dv.d.Attributes.m["volumeMaxLevel"] = GoInt("100")
    /\ dv.y.Attributes.m["volumeMaxLevel"] = GoFloat64("100")
    /\ dv.again = dv.data

\* an add-trait call has completed in this step
AddTraitStep ==
    /\ dv.phase = "built"
    /\ dv'.phase = "built"
    /\ Len(dv'.calls) = Len(dv.calls) + 1

\* C23: an add-trait call removes no trait and no attribute key, and the same
\* call applied again to its result changes neither the traits nor the
\* attributes.
C23_TraitsAndAttributesGrow ==
    [][AddTraitStep =>
         /\ DOMAIN dv.d.Traits.m \subseteq DOMAIN dv'.d.Traits.m
         /\ DOMAIN dv.d.Attributes.m \subseteq DOMAIN dv'.d.Attributes.m
         /\ AddTrait(dv'.d, Last(dv'.calls)).d.Traits = dv'.d.Traits
         /\ AddTrait(dv'.d, Last(dv'.calls)).d.Attributes = dv'.d.Attributes]_vars

\* C23 witness: AddOnOffTrait(true, false) has been applied twice to a new
\* device: the OnOff trait and the commandOnlyOnOff attribute are there.
C23_Witness ==
    /\ dv.origin = "new"
    /\ dv.phase = "built"
    /\ dv.base = NewDevice("test-id", "action.devices.types.LIGHT")
    /\ dv.calls = <<OnOffCall(TRUE, FALSE), OnOffCall(TRUE, FALSE)>>
    /\ DOMAIN dv.d.Traits.m = {"action.devices.traits.OnOff"}
    /\ DOMAIN dv.d.Attributes.m = {"commandOnlyOnOff"}

\* the same add-trait operation has been applied twice, with different
\* arguments, to a device that had no attributes
AppliedTwiceDifferently ==
    /\ dv.origin = "new"
    /\ dv.phase = "built"
    /\ DOMAIN dv.base.Attributes.m = {}
    /\ Len(dv.calls) = 2
    /\ dv.calls[1].op = dv.calls[2].op
    /\ dv.calls[1] # dv.calls[2]

\* C24: after the same add-trait operation applied twice with different
\* arguments the attributes of that trait are those a single application of
\* the later call gives.
C24_LastWriteWins ==
    AppliedTwiceDifferently =>
        Restrict(dv.d.Attributes.m, ContributedKeys(dv.calls[2].op))
            = Restrict(AddTrait(dv.base, dv.calls[2]).d.Attributes.m,
                       ContributedKeys(dv.calls[2].op))

\* The same for the attributes an operation writes whatever its arguments.
LastWriteWinsForAlwaysWritten ==
    AppliedTwiceDifferently =>
        Restrict(dv.d.Attributes.m, AlwaysWrittenKeys(dv.calls[2].op))
            = Restrict(AddTrait(dv.base, dv.calls[2]).d.Attributes.m,
                       AlwaysWrittenKeys(dv.calls[2].op))

\* the calls of an operation among those applied, in order
CallsOf(op) == SelectSeq(dv.calls, LAMBDA c : c.op = op)

\* C25: after add-trait calls among which are colour or colour-temperature
\* calls, ColorSetting is registered and encoded once, colorModel is there
\* exactly when AddColourTrait was called and is the model of its most recent
\* call, and colorTemperatureRange is there when AddColourTemperatureTrait was
\* called, with the range of its most recent call.
C25_ColourTraitsCoexist ==
    (/\ dv.origin = "new"
     /\ dv.phase \in {"built", "encoded"}
     /\ Len(CallsOf("AddColourTrait")) + Len(CallsOf("AddColourTemperatureTrait")) > 0) =>
        /\ "action.devices.traits.ColorSetting" \in DOMAIN dv.d.Traits.m
        /\ dv.phase = "encoded" =>
              Cardinality({i \in 1..Len(EncodedTraits(dv.data)) :
                              EncodedTraits(dv.data)[i] = "action.devices.traits.ColorSetting"}) = 1
        /\ "colorModel" \in DOMAIN dv.d.Attributes.m <=> Len(CallsOf("AddColourTrait")) > 0
        /\ Len(CallsOf("AddColourTrait")) > 0 =>
              /\ dv.d.Attributes.m["colorModel"] = GoString(Last(CallsOf("AddColourTrait")).model)
              /\ dv.d.Attributes.m["colorModel"] \in {GoString(RGB), GoString(HSV)}
        /\ Len(CallsOf("AddColourTemperatureTrait")) > 0 =>
              /\ "colorTemperatureRange" \in DOMAIN dv.d.Attributes.m
              /\ dv.d.Attributes.m["colorTemperatureRange"]
                    = GoMap([temperatureMinK |-> GoInt(Last(CallsOf("AddColourTemperatureTrait")).minTempK),
                             temperatureMaxK |-> GoInt(Last(CallsOf("AddColourTemperatureTrait")).maxTempK)])

\* C25 witness: a device given a colour temperature range and then the HSV
\* colour model has been encoded: one ColorSetting trait, colorModel hsv, the
\* range still there.
C25_Witness ==
    /\ dv.origin = "new"
    /\ dv.phase = "encoded"
    /\ dv.calls = <<ColourTemperatureCall("2000", "9000", FALSE), ColourCall(HSV, TRUE)>>
    /\ dv.d.Attributes.m["colorModel"] = GoString(HSV)
    /\ "colorTemperatureRange" \in DOMAIN dv.d.Attributes.m
    /\ "action.devices.traits.ColorSetting" \in Range(EncodedTraits(dv.data))

\* the model of the colour wheel replaced by a later call
ColourModelReplaced ==
    /\ dv.origin = "new"
    /\ dv.phase = "built"
    /\ dv.calls = <<ColourCall(RGB, FALSE), ColourCall(HSV, FALSE)>>
    /\ dv.d.Attributes.m["colorModel"] = GoString(HSV)

\* C30: every add-trait call on a Device decoded from a descriptor completes.
C30_DecodedDeviceUsable ==
    (dv.origin = "wire" /\ Len(dv.calls) > 0) => dv.phase # "panicked"

\* The same for the descriptors that have an attributes object, and for the
\* calls that write no attribute.
DecodedWithAttributesUsable ==
    (/\ dv.origin = "wire"
     /\ Len(dv.calls) > 0
     /\ \/ Member(dv.data, "attributes").t = "object"
        \/ \A i \in 1..Len(dv.calls) :
              dv.calls[i] \in {BrightnessCall(FALSE), OnOffCall(FALSE, FALSE)}) =>
        dv.phase # "panicked"

\* an add-trait call on the decoded encoding of NewLight has panicked
DecodedLightPanicked ==
    /\ dv.origin = "wire"
    /\ dv.phase = "panicked"
    /\ dv.data = DeviceMarshalJSON(NewLight("test-id"), <<"action.devices.traits.OnOff">>)
    /\ dv.calls = <<BrightnessCall(TRUE)>>

----------------------------------------------------------------------------
(* What the formulas on the HomeGraph calls read from a state *)

\* the ReportState calls made
Reports == {i \in 1..Len(hg) : hg[i].method = "ReportState"}

\* C26: ReportState returns ErrReportStateFailed when the call completed with
\* a status other than OK, the call's own error when the call failed, and nil
\* only when the call completed with status OK.
C26_ReportStateErrors ==
    \A i \in Reports :
        /\ (hg[i].out.err = NoError /\ hg[i].out.status # StatusOK) => hg[i].ret = ErrReportStateFailed
        /\ hg[i].out.err # NoError => hg[i].ret = hg[i].out.err
        /\ hg[i].ret = NoError => (hg[i].out.err = NoError /\ hg[i].out.status = StatusOK)

\* The same without the name of the error: a call that failed returns its
\* error, one that completed with another status returns some error, and nil
\* is returned only for status OK.
ReportStateFailsUnlessOK ==
    \A i \in Reports :
        /\ hg[i].out.err # NoError => hg[i].ret = hg[i].out.err
        /\ hg[i].ret = NoError <=> (hg[i].out.err = NoError /\ hg[i].out.status = StatusOK)

\* a ReportState whose call completed with another status returned ErrSyncFailed
ReportStateReturnedSyncFailed ==
    \E i \in Reports :
        /\ hg[i].out.err = NoError
        /\ hg[i].out.status = StatusNoContent
        /\ hg[i].ret = ErrSyncFailed

----------------------------------------------------------------------------
(* Decoding a received DeviceState *)

\* a received state has been handed to json.Unmarshal
WireStateHandled == sc.phase \in {"wiredecoded", "wirefailed", "wirepanicked"}

\* the received object has a boolean online
OnlineGiven == sc.data.t = "object" /\ Member(sc.data, "online").t = "bool"

\* C27: decoding an object without online, or with an online that is no
\* boolean, ends in an error value: it does not panic and does not leave the
\* DeviceState with the Online it had.
C27_OnlineRequired ==
    (WireStateHandled /\ sc.data.t = "object" /\ ~OnlineGiven) => sc.phase = "wirefailed"

\* What holds: an object with a boolean online and no status, or a string
\* status, is decoded without error, Online as given and Status as given or
\* as it was.
OnlineGivenIsDecoded ==
    (/\ WireStateHandled
     /\ OnlineGiven
     /\ Member(sc.data, "status").t \in {"absent", "string"}) =>
        /\ sc.phase = "wiredecoded"
        /\ sc.y.Online = (Member(sc.data, "online").v = "true")
        /\ sc.y.Status = IF Member(sc.data, "status").t = "string"
                         THEN Member(sc.data, "status").v ELSE sc.x.Status

\* an object without online decoded into a state that was online: no error,
\* Online still true
StaleOnlineKept ==
    /\ sc.phase = "wiredecoded"
    /\ "online" \notin DOMAIN sc.data.sub
    /\ sc.x.Online
    /\ sc.y.Online

\* an online that is a string makes the decode panic
OnlineStringPanics ==
    /\ sc.phase = "wirepanicked"
    /\ Member(sc.data, "online").t = "string"

====
